---- MODULE Spec2Model ----
(***************************************************************************)
(* FinSight-AI front end: the document detail view                         *)
(* (src/frontend/src/app/documents/[id]/page.tsx).                         *)
(*                                                                         *)
(* The view is a React function component.  Its state is the useState      *)
(* cells (document, loading, error, retrying), the useRef cell             *)
(* pollingInterval, the interval timers the browser keeps for it and the   *)
(* requests it has sent through apiClient and not yet seen resolved.       *)
(* A request is served by the remote document service at some moment       *)
(* between its issue and the arrival of its response, so responses may     *)
(* arrive in any order and may carry a snapshot older than the one the     *)
(* view shows.                                                             *)
(*                                                                         *)
(* A state setter called by the continuation of an await, by a timer or by *)
(* a passive effect only queues its value: the cell holds it for the next  *)
(* render, which React runs in a later task (Render).  Until then the page *)
(* on the screen is that of the last commit (view): its buttons, and the   *)
(* closures of its handlers, are those of that render.  A state setter     *)
(* called by a click or change handler is rendered in the task of the      *)
(* event.                                                                  *)
(***************************************************************************)
EXTENDS Integers, FiniteSets, Sequences, TLC

\* ------------------------------------------------------------------ bounds
MaxInFlight == 2   \* requests in flight at one time
MaxObs == 1        \* in-place changes of params.id
MaxNotes == 1      \* characters typed into the resolution notes
MaxQuery == 2      \* characters typed into the search box

Ids == {1, 2}

NonTerminal == {"UPLOADED", "PROCESSING"}
Terminal == {"COMPLETED", "FAILED"}
Statuses == NonTerminal \cup Terminal

\* useState<DocumentDetail | null>(null): the null snapshot; its status
\* stands for the undefined value of document?.status.
NoDoc == [id |-> 0, status |-> "null", arrays |-> "none", is_resolved |-> FALSE,
          original_filename |-> <<>>]

\* The original filenames of the documents, as strings of characters:
\* "r.v.p" (two dots) and "r.p" (one dot).
original_filename(i) ==
    IF i = 1 THEN <<"r", ".", "v", ".", "p">> ELSE <<"r", ".", "p">>

\* useRef<NodeJS.Timeout | null>(null): the null handle.
NoTimer == 0

\* Upload page, useState<File | null>(null): the null file.
NoFile == [type |-> "none", size |-> 0]

\* The extensions the file input accepts (its accept attribute), and the
\* types a dropped or picked file can have.
Accepted == {"pdf", "docx", "doc", "png", "jpg", "jpeg"}
FileTypes == {"pdf", "docx", "exe"}

\* The size ceiling of an upload, in MB, and the sizes a file can have.
SizeCeiling == 50
FileSizes == {1, SizeCeiling, SizeCeiling + 1}

Files == [type : FileTypes, size : FileSizes]

\* The service's precondition of an upload.
ValidUpload(f) == f.type \in Accepted /\ f.size <= SizeCeiling

\* page_size of listDocuments and of listAuditLogs, and the divisor of the
\* pagination controls.
PageSize == 20

\* The archive a visit of the documents list starts from: one page and one
\* document more of completed documents, and one failed document.
Archives ==
    {[s \in Statuses |-> IF s = "COMPLETED" THEN PageSize + 1
                         ELSE IF s = "FAILED" THEN 1 ELSE 0]}

\* The lengths of the audit trail a visit of the audit log starts from, and
\* the length it grows to at most.
Trails == {PageSize, 2 * PageSize + 1}
MaxTrail == 42

\* The entries recorded in the audit trail during one visit, at most.
MaxAppended == 2

\* The documents deleted from the archive during one visit, at most.
MaxRemoved == 1

\* The documents the uploads of one visit create, at most.
MaxCreated == 2

\* useState<string | null>(null) of resolvingId: the null flag id.  Document
\* i carries one risk flag, whose id is i.
NoFlag == 0

VARIABLES
    backend,          \* remote service: id -> status of the document
    phase,            \* "created" | "mounted" | "unmounted" | "absent"
    id,               \* params.id of the current render
    document,         \* useState document
    loading,          \* useState loading
    error,            \* useState error ("" when none)
    retrying,         \* useState retrying
    pollingInterval,  \* pollingInterval.current: NoTimer or a handle
    timers,           \* live setInterval timers: [h, id, late] (h the handle,
                      \* id that of the closure that armed it)
    reqs,             \* requests in flight, in the order of their issue
    obs,              \* number of changes of params.id so far
    ev,               \* the step just taken (history)
    pollFailed,       \* a poll fetch of this observation has failed (history)
    dueEffect,        \* the passive effects React has scheduled and not yet run
    view,             \* the useState cells as the last commit rendered them
    resolvingId,      \* useState resolvingId: NoFlag or the id of a risk flag
    resolutionNotes,  \* useState resolutionNotes: a string
    isExporting,      \* useState isExporting
    resolved,         \* remote service: the risk flags that are resolved
    deleted,          \* remote service: the documents that were deleted
    pushed,           \* router.push("/documents") has been called
    file,             \* upload page: useState file (NoFile or a File)
    uploading,        \* upload page: useState uploading
    success,          \* upload page: useState success
    uploadError,      \* upload page: useState error
    uploads,          \* upload page: uploadDocument requests in flight
    redirect,         \* upload page: the navigation [state, to]: state is
                      \* "none" | "scheduled" | "pushed", to the id in the route
    created,          \* remote service: number of documents the uploads created
    alertsPhase,      \* alerts page: "created" | "mounted" | "absent"
    alerts,           \* alerts page: useState alerts (ids of the flags shown)
    alertsLoading,    \* alerts page: useState loading
    alertsError,      \* alerts page: useState error
    alertsFilter,     \* alerts page: useState filter ("" for all priorities)
    alertReqs,        \* alerts page: requests in flight
    alertsView,       \* alerts page: the cells as the last commit rendered them
    archive,          \* remote service: status -> number of documents
    removed,          \* documents deleted from the archive so far (history)
    docsPhase,        \* documents list: "created" | "mounted" | "absent"
    documents,        \* documents list: useState documents
    docsLoading,      \* documents list: useState loading
    docsError,        \* documents list: useState error
    docsFilter,       \* documents list: useState filter ("" for all statuses)
    docsPage,         \* documents list: useState page
    docsTotal,        \* documents list: useState total
    docsReqs,         \* documents list: listDocuments requests in flight
    docsView,         \* documents list: the cells as the last commit rendered them
    trail,            \* remote service: number of audit log entries
    logsPhase,        \* audit log: "created" | "mounted" | "absent"
    logs,             \* audit log: useState logs
    logsLoading,      \* audit log: useState loading
    logsTotal,        \* audit log: useState total
    logsPage,         \* audit log: useState page
    logsReqs,         \* audit log: listAuditLogs requests in flight
    logsView,         \* audit log: the cells as the last commit rendered them
    searchPhase,      \* search page: "mounted" | "absent"
    query,            \* search page: useState query
    results,          \* search page: useState results
    searchLoading,    \* search page: useState loading
    searched,         \* search page: useState searched
    searchReqs,       \* search page: search requests in flight
    searchEv          \* search page: the step just taken (history)

\* What the operator's actions on the detail view add to its state.
operatorVars == <<resolvingId, resolutionNotes, isExporting, resolved, deleted,
                  pushed>>

\* The state of the other pages.
uploadVars == <<file, uploading, success, uploadError, uploads, redirect,
                created>>
alertsVars == <<alertsPhase, alerts, alertsLoading, alertsError, alertsFilter,
                alertReqs, alertsView>>
docsVars == <<archive, removed, docsPhase, documents, docsLoading, docsError,
              docsFilter, docsPage, docsTotal, docsReqs, docsView>>
logsVars == <<trail, logsPhase, logs, logsLoading, logsTotal, logsPage,
              logsReqs, logsView>>
searchVars == <<searchPhase, query, results, searchLoading, searched,
                searchReqs, searchEv>>
listVars == <<docsVars, logsVars, searchVars>>
otherPages == <<uploadVars, alertsVars, listVars>>

\* The state of the detail view and of the service behind it.
detailVars == <<backend, phase, id, document, loading, error, retrying,
                pollingInterval, timers, reqs, obs, ev, pollFailed,
                dueEffect, view, operatorVars>>

vars == <<detailVars, otherPages>>

\* ----------------------------------------------------------------- helpers
\* getDocument's DocumentDetail: the extraction, risk-flag and validation
\* arrays are those of the analysis, filled once it has completed.
Snapshot(i) ==
    [id |-> i, status |-> backend[i],
     arrays |-> IF backend[i] = "COMPLETED" THEN "filled" ELSE "empty",
     is_resolved |-> i \in resolved,
     original_filename |-> original_filename(i)]

\* History of a step: what it did (op), for which loadDocument call
\* (origin), whether the closure that ran belongs to an observation that
\* has ended (late), whether it stored the result of a fetch issued before
\* one whose result had been stored already (stale), and the branch the
\* polling effect took after it (effect).  A getDocument result is stored
\* by the continuation ("storeDoc"), committed by the next render
\* ("commitDoc" when the polling effect is due) and applied once the
\* polling effect has run or was not due ("applyDoc").
Event(op, origin, late, stale, effect) ==
    [op |-> op, origin |-> origin, late |-> late, stale |-> stale,
     effect |-> effect]

\* No passive effect is scheduled and no render is awaited.  A scheduled
\* polling effect (due) keeps the status of the commit before (prev) and, as
\* history, the fetch whose result the commit stored.  idEffect tells what
\* is scheduled of the [id] effect: "none", its cleanup and its body after
\* params.id changed ("rerun"), or its cleanup after the unmount
\* ("cleanup").  flush: a handler has set state while an effect was
\* scheduled, and React runs the effect in the task of the event, before it
\* renders.  stored: a getDocument result awaits its render (with, as
\* history, the fetch it came from).
NoEffect ==
    [due |-> FALSE, prev |-> "null", origin |-> "none", late |-> FALSE,
     stale |-> FALSE, idEffect |-> "none", flush |-> FALSE, stored |-> FALSE,
     storedOrigin |-> "none", storedLate |-> FALSE, storedStale |-> FALSE]

\* A step none of the properties below asks about.
Quiet == Event("other", "none", FALSE, FALSE, "skipped")

\* A request as apiClient sends it.  origin is the caller of the
\* loadDocument that sent a getDocument.  late and superseded are
\* history: the observation that sent it has ended; the result of a fetch of
\* the same document issued after it has been stored.
Request(op, i, origin, late) ==
    [op |-> op, id |-> i, origin |-> origin, late |-> late,
     superseded |-> FALSE, resp |-> "pending", data |-> NoDoc,
     notes |-> <<>>, flag |-> NoFlag]

\* showLoadingState of the loadDocument call: true from the [id] effect and
\* from handleRetry, false from the interval callback.
showLoadingState(origin) == origin \in {"mount", "retry"}

Remove(s, k) == [n \in 1..(Len(s) - 1) |-> IF n < k THEN s[n] ELSE s[n + 1]]

\* The observation ends: what is in flight or armed now outlives it.
Outlived(s) == [n \in 1..Len(s) |-> [s[n] EXCEPT !.late = TRUE]]

\* The k-th request's result is stored: every getDocument of the same
\* document issued before it is superseded.
Supersede(s, k) ==
    [n \in 1..Len(s) |->
        IF n < k /\ s[n].op = "getDocument" /\ s[n].id = s[k].id /\ ~s[n].late
        THEN [s[n] EXCEPT !.superseded = TRUE] ELSE s[n]]

\* setInterval returns a handle no live timer and no stored reference has.
FreshHandle(ref, tm) ==
    CHOOSE h \in 1..(Cardinality(tm) + 2) : h # ref /\ \A t \in tm : t.h # h

clearInterval(h, tm) == {t \in tm : t.h # h}

\* The polling effect without its `if (!pollingInterval.current)` test: it
\* arms a timer whenever the status is UPLOADED or PROCESSING.
PollingEffectUnguarded(status, ref, tm, curId) ==
    IF status \in NonTerminal
    THEN LET h == FreshHandle(ref, tm)
         IN  [ref |-> h,
              timers |-> tm \cup {[h |-> h, id |-> curId, late |-> FALSE]}]
    ELSE IF ref # NoTimer
         THEN [ref |-> NoTimer, timers |-> clearInterval(ref, tm)]
         ELSE [ref |-> ref, timers |-> tm]

\* The body of the polling effect (deps [document?.status]).
PollingEffect(status, ref, tm, curId) ==
    IF status \in NonTerminal
    THEN IF ref = NoTimer
         THEN LET h == FreshHandle(ref, tm)
              IN  [ref |-> h,
                   timers |-> tm \cup {[h |-> h, id |-> curId, late |-> FALSE]}]
         ELSE [ref |-> ref, timers |-> tm]
    ELSE IF ref # NoTimer
         THEN [ref |-> NoTimer, timers |-> clearInterval(ref, tm)]
         ELSE [ref |-> ref, timers |-> tm]

\* React runs the effect after a commit only when its dependency changed.
StatusEffect(prev, status, ref, tm, curId) ==
    IF prev = status
    THEN [ref |-> ref, timers |-> tm]
    ELSE PollingEffect(status, ref, tm, curId)

\* The branch of the polling effect a commit takes (history).
EffectBranch(prev, status, ref) ==
    IF prev = status THEN "skipped"
    ELSE IF status \in NonTerminal
         THEN IF ref = NoTimer THEN "armed" ELSE "kept"
         ELSE IF ref # NoTimer THEN "cleared" ELSE "idle"

\* The cleanup of the [id] effect, and the same statement in the catch of
\* loadDocument: the reference keeps the handle.
Cleanup(ref, tm) == IF ref # NoTimer THEN clearInterval(ref, tm) ELSE tm

\* The useState cells of the detail view, as the next render reads them.
Cells ==
    [document |-> document, loading |-> loading, error |-> error,
     retrying |-> retrying, resolvingId |-> resolvingId,
     resolutionNotes |-> resolutionNotes, isExporting |-> isExporting]

\* A click or change handler has set state: React renders in the task of
\* the event, and first runs the passive effect it has scheduled.
SyncRender ==
    [dueEffect EXCEPT !.flush = (dueEffect.idEffect = "rerun" \/ dueEffect.due)]

\* There is room for the n requests of a handler, and for the getDocument
\* of the [id] effect when the handler's render runs it.
Room(n) ==
    Len(reqs) + n + (IF dueEffect.idEffect = "rerun" THEN 1 ELSE 0)
        <= MaxInFlight

\* -------------------------------------------------------------------- Init
\* The state before the first commit of the pages; a page that the visit
\* is not about is "absent" from the start.
InitPages(detail, alertsPage, docsVisit, logsVisit, searchVisit) ==
    /\ backend \in [Ids -> Statuses]
    /\ phase = detail
    /\ id = 1
    /\ document = NoDoc
    /\ loading = TRUE
    /\ error = ""
    /\ retrying = FALSE
    /\ pollingInterval = NoTimer
    /\ timers = {}
    /\ reqs = <<>>
    /\ obs = 0
    /\ ev = Quiet
    /\ pollFailed = FALSE
    /\ dueEffect = NoEffect
    /\ resolvingId = NoFlag
    /\ resolutionNotes = <<>>
    /\ isExporting = FALSE
    /\ view = Cells
    /\ resolved = {}
    /\ deleted = {}
    /\ pushed = FALSE
    /\ file = NoFile
    /\ uploading = FALSE
    /\ success = FALSE
    /\ uploadError = ""
    /\ uploads = <<>>
    /\ redirect = [state |-> "none", to |-> 0]
    /\ created = 0
    /\ alertsPhase = alertsPage
    /\ alerts = <<>>
    /\ alertsLoading = TRUE
    /\ alertsError = ""
    /\ alertsFilter = ""
    /\ alertReqs = <<>>
    /\ alertsView = [alerts |-> <<>>, loading |-> TRUE, error |-> ""]
    /\ removed = 0
    /\ docsPhase = docsVisit
    /\ documents = <<>>
    /\ docsLoading = TRUE
    /\ docsError = ""
    /\ docsFilter = ""
    /\ docsPage = 1
    /\ docsTotal = 0
    /\ docsReqs = <<>>
    /\ docsView = [documents |-> <<>>, loading |-> TRUE, total |-> 0,
                   error |-> ""]
    /\ logsPhase = logsVisit
    /\ logs = <<>>
    /\ logsLoading = TRUE
    /\ logsTotal = 0
    /\ logsPage = 1
    /\ logsReqs = <<>>
    /\ logsView = [logs |-> <<>>, loading |-> TRUE, total |-> 0]
    /\ searchPhase = searchVisit
    /\ query = <<>>
    /\ results = <<>>
    /\ searchLoading = FALSE
    /\ searched = FALSE
    /\ searchReqs = <<>>
    /\ searchEv = [op |-> "none", again |-> FALSE]

\* A visit of the detail view or of the alerts page: the list pages and the
\* search page are not visited, and the service's archive and audit trail
\* are at rest.
InitWith(detail, alertsPage) ==
    /\ InitPages(detail, alertsPage, "absent", "absent", "absent")
    /\ archive = [s \in Statuses |-> 0]
    /\ trail = PageSize

Init == InitWith("created", "created")

\* ----------------------------------------------------------------- actions

\* First commit: the [id] effect calls loadDocument(true); the polling effect
\* runs with document = null.  The page on the screen is the spinner.
Mount ==
    /\ phase = "created"
    /\ phase' = "mounted"
    /\ loading' = TRUE
    /\ reqs' = Append(reqs, Request("getDocument", id, "mount", FALSE))
    /\ LET eff == PollingEffect(document.status, pollingInterval, timers, id)
       IN  /\ pollingInterval' = eff.ref
           /\ timers' = eff.timers
    /\ ev' = Event("issue", "mount", FALSE, FALSE, "skipped")
    /\ UNCHANGED <<backend, id, document, error, retrying, obs, pollFailed>>
    /\ UNCHANGED <<operatorVars, otherPages>>
    /\ UNCHANGED <<dueEffect, view>>

\* params.id changes under the mounted component: the render with the new
\* id commits and the [id] effect is scheduled; its cleanup and its body run
\* in a later task (idEffect).  What was in flight or armed belongs to the
\* observation that has ended.  The navigation is a transition: React
\* renders the state that was set before, and runs the passive effects it
\* has scheduled, before it commits the new id.
ChangeId(j) ==
    /\ dueEffect = NoEffect
    /\ view = Cells
    /\ phase = "mounted"
    /\ j # id
    /\ obs < MaxObs
    /\ id' = j
    /\ obs' = obs + 1
    /\ timers' = {[t EXCEPT !.late = TRUE] : t \in timers}
    /\ reqs' = Outlived(reqs)
    /\ dueEffect' = [dueEffect EXCEPT !.idEffect = "rerun"]
    /\ ev' = Quiet
    /\ pollFailed' = FALSE
    /\ UNCHANGED <<backend, phase, document, loading, error, retrying,
                   pollingInterval, view>>
    /\ UNCHANGED <<operatorVars, otherPages>>

\* The scheduled [id] effect runs after params.id changed: the cleanup of
\* the effect before, then `if (id) loadDocument(true)` up to its await.
\* setLoading(true) is rendered in a later task: the page of the last commit
\* stays on the screen.
idEffect ==
    /\ phase = "mounted"
    /\ dueEffect.idEffect = "rerun"
    /\ Len(reqs) < MaxInFlight
    /\ timers' = Cleanup(pollingInterval, timers)
    /\ loading' = TRUE
    /\ reqs' = Append(reqs, Request("getDocument", id, "mount", FALSE))
    /\ dueEffect' = [dueEffect EXCEPT !.idEffect = "none", !.flush = FALSE]
    /\ ev' = Event("issue", "mount", FALSE, FALSE, "skipped")
    /\ UNCHANGED <<backend, phase, id, document, error, retrying,
                   pollingInterval, obs, pollFailed, view>>
    /\ UNCHANGED <<operatorVars, otherPages>>

\* The component unmounts: the commit removes it and the cleanup of the
\* [id] effect is scheduled (idEffectCleanup).  The navigation is a
\* transition, as in ChangeId.
Unmount ==
    /\ phase = "mounted"
    /\ dueEffect = NoEffect
    /\ view = Cells
    /\ phase' = "unmounted"
    /\ timers' = {[t EXCEPT !.late = TRUE] : t \in timers}
    /\ reqs' = Outlived(reqs)
    /\ dueEffect' = [dueEffect EXCEPT !.idEffect = "cleanup"]
    /\ ev' = Quiet
    /\ UNCHANGED <<backend, id, document, loading, error, retrying,
                   pollingInterval, obs, pollFailed, view>>
    /\ UNCHANGED <<operatorVars, otherPages>>

\* The scheduled cleanup of the [id] effect runs after the unmount.
idEffectCleanup ==
    /\ phase = "unmounted"
    /\ dueEffect.idEffect = "cleanup"
    /\ timers' = Cleanup(pollingInterval, timers)
    /\ dueEffect' = [dueEffect EXCEPT !.idEffect = "none"]
    /\ ev' = Quiet
    /\ UNCHANGED <<backend, phase, id, document, loading, error, retrying,
                   pollingInterval, reqs, obs, pollFailed, view>>
    /\ UNCHANGED <<operatorVars, otherPages>>

\* A live interval timer fires: loadDocument(false) of the closure that
\* armed it.  The callback is a task of its own.
Tick(t) ==
    /\ t \in timers
    /\ ~dueEffect.flush
    /\ Len(reqs) < MaxInFlight
    /\ reqs' = Append(reqs, Request("getDocument", t.id, "poll", t.late))
    /\ ev' = Event("issue", "poll", t.late, FALSE, "skipped")
    /\ UNCHANGED <<backend, phase, id, document, loading, error, retrying,
                   pollingInterval, timers, obs, pollFailed>>
    /\ UNCHANGED <<operatorVars, otherPages>>
    /\ UNCHANGED <<dueEffect, view>>

\* ------------------------------------------------- the remote service
\* The service changes a document on its own:
\* UPLOADED -> PROCESSING -> COMPLETED | FAILED.
Advance(i, s) ==
    /\ \/ backend[i] = "UPLOADED" /\ s = "PROCESSING"
       \/ backend[i] = "PROCESSING" /\ s \in Terminal
    /\ backend' = [backend EXCEPT ![i] = s]
    /\ ev' = Quiet
    /\ UNCHANGED <<phase, id, document, loading, error, retrying,
                   pollingInterval, timers, reqs, obs, pollFailed>>
    /\ UNCHANGED <<operatorVars, otherPages>>
    /\ UNCHANGED <<dueEffect, view>>

Answer(k, kind, data) ==
    reqs' = [reqs EXCEPT ![k] = [@ EXCEPT !.resp = kind, !.data = data]]

Pending(k, op) ==
    k \in 1..Len(reqs) /\ reqs[k].op = op /\ reqs[k].resp = "pending"

\* The response of the k-th request arrives and its promise resolves: the
\* continuation of the await runs, as a task of its own.
Resolves(k, op) ==
    /\ k \in 1..Len(reqs) /\ reqs[k].op = op /\ reqs[k].resp = "ok"
    /\ ~dueEffect.flush

\* The promise of the k-th request rejects: the service refused it, or the
\* transport failed (network or server failure, timeout) before or after
\* the service handled it.  The value is err.message.  The catch runs as a
\* task of its own.
Rejects(k, op) ==
    /\ k \in 1..Len(reqs) /\ reqs[k].op = op
    /\ ~dueEffect.flush

Message(k) ==
    IF reqs[k].resp = "conflict" THEN "ConflictError"
    ELSE IF reqs[k].resp = "notfound" THEN "NotFoundError"
    ELSE IF reqs[k].resp = "invalid" THEN "ValidationError"
    ELSE "TransportError"

\* getDocument(id) is served: the current snapshot.
ServeGet(k) ==
    /\ Pending(k, "getDocument")
    /\ IF reqs[k].id \in deleted
       THEN Answer(k, "notfound", NoDoc)
       ELSE Answer(k, "ok", Snapshot(reqs[k].id))
    /\ ev' = Quiet
    /\ UNCHANGED <<backend, phase, id, document, loading, error, retrying,
                   pollingInterval, timers, obs, pollFailed>>
    /\ UNCHANGED <<operatorVars, otherPages>>
    /\ UNCHANGED <<dueEffect, view>>

\* retryDocument(id) is served: FAILED -> PROCESSING, a conflict otherwise.
ServeRetry(k) ==
    /\ Pending(k, "retryDocument")
    /\ IF reqs[k].id \in deleted
       THEN /\ backend' = backend
            /\ Answer(k, "notfound", NoDoc)
       ELSE IF backend[reqs[k].id] = "FAILED"
       THEN /\ backend' = [backend EXCEPT ![reqs[k].id] = "PROCESSING"]
            /\ Answer(k, "ok", NoDoc)
       ELSE /\ backend' = backend
            /\ Answer(k, "conflict", NoDoc)
    /\ ev' = Quiet
    /\ UNCHANGED <<phase, id, document, loading, error, retrying,
                   pollingInterval, timers, obs, pollFailed>>
    /\ UNCHANGED <<operatorVars, otherPages>>
    /\ UNCHANGED <<dueEffect, view>>

\* loadDocument after `await apiClient.getDocument(id)` resolved:
\* setDocument(data), finally setLoading(false) when showLoadingState.  The
\* values are rendered in a later task (Render).  The state setters of a
\* component that is no longer mounted do nothing.
loadDocumentResolved(k) ==
    /\ Resolves(k, "getDocument")
    /\ IF phase = "mounted"
       THEN /\ document' = reqs[k].data
            /\ loading' = IF showLoadingState(reqs[k].origin) THEN FALSE ELSE loading
            /\ reqs' = Remove(Supersede(reqs, k), k)
            /\ dueEffect' = [dueEffect EXCEPT
                                 !.stored = TRUE,
                                 !.storedOrigin = reqs[k].origin,
                                 !.storedLate = reqs[k].late,
                                 !.storedStale = reqs[k].superseded]
            /\ ev' = Event("storeDoc", reqs[k].origin, reqs[k].late,
                           reqs[k].superseded, "pending")
       ELSE /\ UNCHANGED <<document, loading, dueEffect>>
            /\ reqs' = Remove(reqs, k)
            /\ ev' = Quiet
    /\ UNCHANGED <<backend, phase, id, error, retrying, pollingInterval,
                   timers, obs, pollFailed, view>>
    /\ UNCHANGED <<operatorVars, otherPages>>

\* React renders the state that the continuations, the timers and the
\* effects have set since the last commit, and commits it: the page on the
\* screen changes (the spinner of `if (loading)`, the error panel of
\* `if (error || !document)`, or the page).  React runs the passive effects
\* it has scheduled before it renders.  When document?.status has changed,
\* it schedules the polling effect, which runs in a later task
\* (pollingEffect).
Render ==
    /\ phase = "mounted"
    /\ dueEffect.idEffect = "none"
    /\ ~dueEffect.due
    /\ view # Cells \/ dueEffect.stored
    /\ view' = Cells
    /\ IF view.document.status # document.status
       THEN /\ dueEffect' = [NoEffect EXCEPT
                                 !.due = TRUE,
                                 !.prev = view.document.status,
                                 !.origin = dueEffect.storedOrigin,
                                 !.late = dueEffect.storedLate,
                                 !.stale = dueEffect.storedStale]
            /\ ev' = Event("commitDoc", dueEffect.storedOrigin,
                           dueEffect.storedLate, dueEffect.storedStale, "due")
       ELSE /\ dueEffect' = NoEffect
            /\ ev' = IF dueEffect.stored
                     THEN Event("applyDoc", dueEffect.storedOrigin,
                                dueEffect.storedLate, dueEffect.storedStale,
                                "skipped")
                     ELSE Quiet
    /\ UNCHANGED <<backend, phase, id, document, loading, error, retrying,
                   pollingInterval, timers, reqs, obs, pollFailed>>
    /\ UNCHANGED <<operatorVars, otherPages>>

\* The scheduled polling effect runs (deps [document?.status]): it arms or
\* clears the timer for the status that was committed.
pollingEffect ==
    /\ phase = "mounted"
    /\ dueEffect.due
    /\ dueEffect.idEffect = "none"
    /\ LET eff == StatusEffect(dueEffect.prev, view.document.status,
                               pollingInterval, timers, id)
       IN  /\ pollingInterval' = eff.ref
           /\ timers' = eff.timers
    /\ dueEffect' = [dueEffect EXCEPT
                         !.due = FALSE, !.prev = "null", !.origin = "none",
                         !.late = FALSE, !.stale = FALSE, !.flush = FALSE]
    /\ ev' = Event("applyDoc", dueEffect.origin, dueEffect.late,
                   dueEffect.stale,
                   EffectBranch(dueEffect.prev, view.document.status,
                                pollingInterval))
    /\ UNCHANGED <<backend, phase, id, document, loading, error, retrying,
                   reqs, obs, pollFailed, view>>
    /\ UNCHANGED <<operatorVars, otherPages>>

\* loadDocument after getDocument rejected: setError(err.message),
\* clearInterval(pollingInterval.current) with the reference left as it is,
\* finally setLoading(false) when showLoadingState.
loadDocumentRejected(k) ==
    /\ Rejects(k, "getDocument")
    /\ reqs' = Remove(reqs, k)
    /\ timers' = Cleanup(pollingInterval, timers)
    /\ IF phase = "mounted"
       THEN /\ error' = Message(k)
            /\ loading' = IF showLoadingState(reqs[k].origin) THEN FALSE ELSE loading
            /\ pollFailed' = (pollFailed \/ (reqs[k].origin = "poll" /\ ~reqs[k].late))
            /\ ev' = Event("failDoc", "none", reqs[k].late, FALSE, "skipped")
       ELSE /\ UNCHANGED <<error, loading, pollFailed>>
            /\ ev' = Quiet
    /\ UNCHANGED <<backend, phase, id, document, retrying, pollingInterval, obs>>
    /\ UNCHANGED <<operatorVars, otherPages>>
    /\ UNCHANGED <<dueEffect, view>>

\* A page that renders its buttons beside the error message.
RenderedDespiteError ==
    phase = "mounted" /\ ~view.loading /\ view.document # NoDoc

\* The page below the early returns `if (loading)` and
\* `if (error || !document)` is on the screen (the buttons exist).
Rendered ==
    phase = "mounted" /\ ~view.loading /\ view.error = ""
        /\ view.document # NoDoc

\* The click on a "Retry AI" button that is rendered whatever the status.
handleRetryAnyStatus ==
    /\ Rendered
    /\ ~dueEffect.flush
    /\ ~view.retrying
    /\ Room(1)
    /\ retrying' = TRUE
    /\ view' = [view EXCEPT !.retrying = TRUE]
    /\ reqs' = Append(reqs, Request("retryDocument", id, "retry", FALSE))
    /\ dueEffect' = SyncRender
    /\ ev' = Quiet
    /\ UNCHANGED <<backend, phase, id, document, loading, error,
                   pollingInterval, timers, obs, pollFailed>>
    /\ UNCHANGED <<operatorVars, otherPages>>

\* Click on "Retry AI" (rendered when document.status === 'FAILED',
\* disabled while retrying): setRetrying(true), apiClient.retryDocument(id).
handleRetry ==
    /\ Rendered
    /\ ~dueEffect.flush
    /\ view.document.status = "FAILED"
    /\ ~view.retrying
    /\ Room(1)
    /\ retrying' = TRUE
    /\ view' = [view EXCEPT !.retrying = TRUE]
    /\ reqs' = Append(reqs, Request("retryDocument", id, "retry", FALSE))
    /\ dueEffect' = SyncRender
    /\ ev' = Quiet
    /\ UNCHANGED <<backend, phase, id, document, loading, error,
                   pollingInterval, timers, obs, pollFailed>>
    /\ UNCHANGED <<operatorVars, otherPages>>

\* handleRetry after retryDocument resolved: loadDocument(true) of the same
\* closure up to its await (setLoading(true), getDocument), finally
\* setRetrying(false).  The page of the last commit stays on the screen
\* until the values are rendered.
handleRetryResolved(k) ==
    /\ Resolves(k, "retryDocument")
    /\ reqs' = Append(Remove(reqs, k),
                      Request("getDocument", reqs[k].id, "retry", reqs[k].late))
    /\ IF phase = "mounted"
       THEN loading' = TRUE /\ retrying' = FALSE
       ELSE UNCHANGED <<loading, retrying>>
    /\ ev' = Event("issue", "retry", reqs[k].late, FALSE, "skipped")
    /\ UNCHANGED <<backend, phase, id, document, error, pollingInterval,
                   timers, obs, pollFailed>>
    /\ UNCHANGED <<operatorVars, otherPages>>
    /\ UNCHANGED <<dueEffect, view>>

\* handleRetry after retryDocument rejected: setError(err.message), finally
\* setRetrying(false).
handleRetryRejected(k) ==
    /\ Rejects(k, "retryDocument")
    /\ reqs' = Remove(reqs, k)
    /\ IF phase = "mounted"
       THEN error' = Message(k) /\ retrying' = FALSE
       ELSE UNCHANGED <<error, retrying>>
    /\ ev' = Quiet
    /\ UNCHANGED <<backend, phase, id, document, loading, pollingInterval,
                   timers, obs, pollFailed>>
    /\ UNCHANGED <<operatorVars, otherPages>>
    /\ UNCHANGED <<dueEffect, view>>

\* ------------------------------------------------------ specification
Slots == 1..MaxInFlight

Next ==
    \/ Mount
    \/ \E j \in Ids : ChangeId(j)
    \/ idEffect
    \/ Unmount
    \/ idEffectCleanup
    \/ \E t \in timers : Tick(t)
    \/ \E i \in Ids, s \in Statuses : Advance(i, s)
    \/ \E k \in Slots : ServeGet(k)
    \/ \E k \in Slots : ServeRetry(k)
    \/ \E k \in Slots : loadDocumentResolved(k)
    \/ Render
    \/ pollingEffect
    \/ \E k \in Slots : loadDocumentRejected(k)
    \/ handleRetry
    \/ \E k \in Slots : handleRetryResolved(k)
    \/ \E k \in Slots : handleRetryRejected(k)

Spec == Init /\ [][Next]_vars

\* The same view when params.id never changes under the mounted component
\* (it is only mounted, used and unmounted).
NextOneId ==
    \/ Mount
    \/ Unmount
    \/ idEffectCleanup
    \/ \E t \in timers : Tick(t)
    \/ \E i \in Ids, s \in Statuses : Advance(i, s)
    \/ \E k \in Slots : ServeGet(k)
    \/ \E k \in Slots : ServeRetry(k)
    \/ \E k \in Slots : loadDocumentResolved(k)
    \/ Render
    \/ pollingEffect
    \/ \E k \in Slots : loadDocumentRejected(k)
    \/ handleRetry
    \/ \E k \in Slots : handleRetryResolved(k)
    \/ \E k \in Slots : handleRetryRejected(k)

SpecOneId == Init /\ [][NextOneId]_vars

\* The mounted view while every getDocument succeeds and it is neither
\* unmounted nor given another id: the interval callback keeps firing, the
\* service answers every request, every answer is delivered and every
\* scheduled effect runs.  A retry the service refused is delivered as its
\* rejection.
RetryRefused(k) ==
    /\ k \in 1..Len(reqs)
    /\ reqs[k].resp = "conflict"
    /\ handleRetryRejected(k)

Ticks == \E t \in timers : Tick(t)

NextLive ==
    \/ Mount
    \/ Ticks
    \/ \E i \in Ids, s \in Statuses : Advance(i, s)
    \/ \E k \in Slots : ServeGet(k)
    \/ \E k \in Slots : ServeRetry(k)
    \/ \E k \in Slots : loadDocumentResolved(k)
    \/ Render
    \/ pollingEffect
    \/ handleRetry
    \/ \E k \in Slots : handleRetryResolved(k)
    \/ \E k \in Slots : RetryRefused(k)

Delivery ==
    \/ Mount
    \/ \E k \in Slots : ServeGet(k)
    \/ \E k \in Slots : ServeRetry(k)
    \/ \E k \in Slots : loadDocumentResolved(k)
    \/ Render
    \/ pollingEffect
    \/ \E k \in Slots : handleRetryResolved(k)
    \/ \E k \in Slots : RetryRefused(k)

SpecLive ==
    /\ Init
    /\ [][NextLive]_vars
    /\ WF_vars(Ticks)
    /\ WF_vars(Delivery)

\* What the operator can type: strings of blanks and letters.
Chars == {" ", "a"}
NotesTyped == UNION {[1..n -> Chars] : n \in 0..MaxNotes}
Queries == UNION {[1..n -> Chars] : n \in 0..MaxQuery}

\* String.prototype.trim(): the string without its leading and trailing
\* white space.
RECURSIVE trimStart(_)
trimStart(str) ==
    IF str # <<>> /\ Head(str) = " " THEN trimStart(Tail(str)) ELSE str

RECURSIVE trimEnd(_)
trimEnd(str) ==
    IF str # <<>> /\ str[Len(str)] = " "
    THEN trimEnd(SubSeq(str, 1, Len(str) - 1)) ELSE str

trim(str) == trimEnd(trimStart(str))

\* A guard that tests the notes as typed.
Untrimmed(notes) == notes # <<>>

\* `resolutionNotes.trim()` as a condition: the trimmed notes are not empty.
HasText(notes) == trim(notes) # <<>>

\* The modal of the resolution is on the screen (rendered when resolvingId
\* is set).
Modal == Rendered /\ view.resolvingId # NoFlag

\* Click on "Resolve" of the risk flag shown (rendered when
\* !risk.is_resolved): setResolvingId(risk.id).
openResolve ==
    /\ Rendered
    /\ ~dueEffect.flush
    /\ view.document.arrays = "filled"
    /\ ~view.document.is_resolved
    /\ Room(0)
    /\ resolvingId' = view.document.id
    /\ view' = [view EXCEPT !.resolvingId = view.document.id]
    /\ dueEffect' = SyncRender
    /\ ev' = Quiet
    /\ UNCHANGED <<backend, phase, id, document, loading, error, retrying,
                   pollingInterval, timers, reqs, obs, pollFailed,
                   resolutionNotes, isExporting, resolved, deleted, pushed,
                   otherPages>>

\* The operator edits the textarea: setResolutionNotes(e.target.value).
typeNotes(notes) ==
    /\ Modal
    /\ ~dueEffect.flush
    /\ notes # view.resolutionNotes
    /\ Room(0)
    /\ resolutionNotes' = notes
    /\ view' = [view EXCEPT !.resolutionNotes = notes]
    /\ dueEffect' = SyncRender
    /\ ev' = Event("type", "resolve", FALSE, FALSE, "skipped")
    /\ UNCHANGED <<backend, phase, id, document, loading, error, retrying,
                   pollingInterval, timers, reqs, obs, pollFailed,
                   resolvingId, isExporting, resolved, deleted, pushed,
                   otherPages>>

\* Click on "Cancel": setResolvingId(null), setResolutionNotes("").
cancelResolve ==
    /\ Modal
    /\ ~dueEffect.flush
    /\ Room(0)
    /\ resolvingId' = NoFlag
    /\ resolutionNotes' = <<>>
    /\ view' = [view EXCEPT !.resolvingId = NoFlag, !.resolutionNotes = <<>>]
    /\ dueEffect' = SyncRender
    /\ ev' = Event("cancel", "none", FALSE, FALSE, "skipped")
    /\ UNCHANGED <<backend, phase, id, document, loading, error, retrying,
                   pollingInterval, timers, reqs, obs, pollFailed,
                   isExporting, resolved, deleted, pushed, otherPages>>

\* "Failed to resolve alert: " + err.message
ResolveFailure(m) ==
    IF m = "ConflictError" THEN "Failed to resolve alert: ConflictError"
    ELSE IF m = "NotFoundError" THEN "Failed to resolve alert: NotFoundError"
    ELSE IF m = "ValidationError" THEN "Failed to resolve alert: ValidationError"
    ELSE "Failed to resolve alert: TransportError"

\* "Failed to generate audit report: " + err.message
ReportFailure(m) ==
    IF m = "ConflictError"
    THEN "Failed to generate audit report: ConflictError"
    ELSE IF m = "NotFoundError"
    THEN "Failed to generate audit report: NotFoundError"
    ELSE IF m = "ValidationError"
    THEN "Failed to generate audit report: ValidationError"
    ELSE "Failed to generate audit report: TransportError"

\* "Confirm Override" pressed (disabled={!resolutionNotes.trim()}), and
\* handleResolveAlert up to its await:
\* `if (!resolvingId || !resolutionNotes.trim()) return`, else
\* apiClient.resolveAlert(resolvingId, resolutionNotes).  The flag and the
\* notes are those of the render whose button was pressed.
handleResolveAlert ==
    /\ Modal
    /\ ~dueEffect.flush
    /\ IF view.resolvingId # NoFlag /\ HasText(view.resolutionNotes)
       THEN /\ Len(reqs) < MaxInFlight
            /\ reqs' = Append(reqs,
                   [Request("resolveAlert", id, "resolve", FALSE)
                       EXCEPT !.flag = view.resolvingId,
                              !.notes = view.resolutionNotes])
            /\ ev' = Event("issueResolve", "resolve", FALSE, FALSE, "skipped")
       ELSE /\ reqs' = reqs
            /\ ev' = Event("refuseResolve", "resolve", FALSE, FALSE, "skipped")
    /\ UNCHANGED <<backend, phase, id, document, loading, error, retrying,
                   pollingInterval, timers, obs, pollFailed, operatorVars,
                   otherPages>>
    /\ UNCHANGED <<dueEffect, view>>

\* resolveAlert(id, notes) is served: the flag becomes resolved, unless the
\* notes are empty after trimming, the flag is gone, or it is resolved
\* already.
ServeResolve(k) ==
    /\ Pending(k, "resolveAlert")
    /\ IF ~HasText(reqs[k].notes)
       THEN resolved' = resolved /\ Answer(k, "invalid", NoDoc)
       ELSE IF reqs[k].flag \in deleted
       THEN resolved' = resolved /\ Answer(k, "notfound", NoDoc)
       ELSE IF reqs[k].flag \in resolved
       THEN resolved' = resolved /\ Answer(k, "conflict", NoDoc)
       ELSE resolved' = resolved \cup {reqs[k].flag} /\ Answer(k, "ok", NoDoc)
    /\ ev' = Quiet
    /\ UNCHANGED <<backend, phase, id, document, loading, error, retrying,
                   pollingInterval, timers, obs, pollFailed, resolvingId,
                   resolutionNotes, isExporting, deleted, pushed, otherPages>>
    /\ UNCHANGED <<dueEffect, view>>

\* handleResolveAlert after resolveAlert rejected and its notes cleared too.
handleResolveAlertRejectedClearing(k) ==
    /\ Rejects(k, "resolveAlert")
    /\ reqs' = Remove(reqs, k)
    /\ IF phase = "mounted"
       THEN /\ error' = ResolveFailure(Message(k))
            /\ resolvingId' = NoFlag
            /\ resolutionNotes' = <<>>
       ELSE UNCHANGED <<error, resolvingId, resolutionNotes>>
    /\ ev' = Event("failResolve", "resolve", reqs[k].late, FALSE, "skipped")
    /\ UNCHANGED <<backend, phase, id, document, loading, retrying,
                   pollingInterval, timers, obs, pollFailed, isExporting,
                   resolved, deleted, pushed, otherPages>>
    /\ UNCHANGED <<dueEffect, view>>

\* handleResolveAlert after resolveAlert resolved nothing is fetched.
handleResolveAlertResolvedNoRefresh(k) ==
    /\ Resolves(k, "resolveAlert")
    /\ reqs' = Remove(reqs, k)
    /\ IF phase = "mounted"
       THEN resolvingId' = NoFlag /\ resolutionNotes' = <<>>
       ELSE UNCHANGED <<resolvingId, resolutionNotes>>
    /\ ev' = Event("resolveDone", "resolve", reqs[k].late, FALSE, "skipped")
    /\ UNCHANGED <<backend, phase, id, document, loading, error, retrying,
                   pollingInterval, timers, obs, pollFailed, isExporting,
                   resolved, deleted, pushed, otherPages>>
    /\ UNCHANGED <<dueEffect, view>>

\* handleResolveAlert after resolveAlert resolved: setResolvingId(null),
\* setResolutionNotes(""), loadDocument(false) of the same closure up to its
\* await.  The modal stays on the screen until the values are rendered.
handleResolveAlertResolved(k) ==
    /\ Resolves(k, "resolveAlert")
    /\ reqs' = Append(Remove(reqs, k),
                      Request("getDocument", reqs[k].id, "resolve", reqs[k].late))
    /\ IF phase = "mounted"
       THEN resolvingId' = NoFlag /\ resolutionNotes' = <<>>
       ELSE UNCHANGED <<resolvingId, resolutionNotes>>
    /\ ev' = Event("issue", "resolve", reqs[k].late, FALSE, "skipped")
    /\ UNCHANGED <<backend, phase, id, document, loading, error, retrying,
                   pollingInterval, timers, obs, pollFailed, isExporting,
                   resolved, deleted, pushed, otherPages>>
    /\ UNCHANGED <<dueEffect, view>>

\* handleResolveAlert after resolveAlert rejected:
\* setError("Failed to resolve alert: " + err.message).
handleResolveAlertRejected(k) ==
    /\ Rejects(k, "resolveAlert")
    /\ reqs' = Remove(reqs, k)
    /\ IF phase = "mounted"
       THEN error' = ResolveFailure(Message(k))
       ELSE error' = error
    /\ ev' = Event("failResolve", "resolve", reqs[k].late, FALSE, "skipped")
    /\ UNCHANGED <<backend, phase, id, document, loading, retrying,
                   pollingInterval, timers, obs, pollFailed, operatorVars,
                   otherPages>>
    /\ UNCHANGED <<dueEffect, view>>

\* ------------------------------------------------- handleExportReport
\* String.prototype.split(sep) with a separator of one character: the
\* pieces of the string between the separators.
RECURSIVE split(_, _)
split(str, sep) ==
    IF \A n \in 1..Len(str) : str[n] # sep
    THEN <<str>>
    ELSE LET n == CHOOSE n \in 1..Len(str) :
                      str[n] = sep /\ \A m \in 1..(n - 1) : str[m] # sep
         IN  <<SubSeq(str, 1, n - 1)>>
                 \o split(SubSeq(str, n + 1, Len(str)), sep)

\* The part of a.download between "Audit-Report-" and the date:
\* document.original_filename.split('.')[0].
downloadName(doc) == split(doc.original_filename, ".")[1]

\* A filename without its extension: what stands before its last dot, the
\* whole of it when it has no dot.
RECURSIVE WithoutExtension(_)
WithoutExtension(name) ==
    IF \A n \in 1..Len(name) : name[n] # "." THEN name
    ELSE IF name[Len(name)] = "." THEN SubSeq(name, 1, Len(name) - 1)
    ELSE WithoutExtension(SubSeq(name, 1, Len(name) - 1))

\* Click on the export button (disabled={isExporting}):
\* `if (!document) return`, setIsExporting(true), apiClient.getReport(id).
\* The request keeps the document of the handler's closure.
handleExportReport ==
    /\ Rendered
    /\ ~dueEffect.flush
    /\ ~view.isExporting
    /\ Room(1)
    /\ isExporting' = TRUE
    /\ view' = [view EXCEPT !.isExporting = TRUE]
    /\ reqs' = Append(reqs, Request("getReport", id, "export", FALSE)
                                @@ [doc |-> view.document])
    /\ dueEffect' = SyncRender
    /\ ev' = Event("issueReport", "export", FALSE, FALSE, "skipped")
    /\ UNCHANGED <<backend, phase, id, document, loading, error, retrying,
                   pollingInterval, timers, obs, pollFailed, resolvingId,
                   resolutionNotes, resolved, deleted, pushed, otherPages>>

\* getReport(id) is served: the report of the document, if it exists.
ServeReport(k) ==
    /\ Pending(k, "getReport")
    /\ IF reqs[k].id \in deleted
       THEN Answer(k, "notfound", NoDoc)
       ELSE Answer(k, "ok", Snapshot(reqs[k].id))
    /\ ev' = Quiet
    /\ UNCHANGED <<backend, phase, id, document, loading, error, retrying,
                   pollingInterval, timers, obs, pollFailed, operatorVars,
                   otherPages>>
    /\ UNCHANGED <<dueEffect, view>>

\* handleExportReport after getReport resolved: the report is offered as a
\* download (a.click()) under the name made from the document of the
\* closure, finally setIsExporting(false).
handleExportReportResolved(k) ==
    /\ Resolves(k, "getReport")
    /\ reqs' = Remove(reqs, k)
    /\ isExporting' = (IF phase = "mounted" THEN FALSE ELSE isExporting)
    /\ ev' = Event("exported", "export", reqs[k].late, FALSE, "skipped")
                @@ [download |-> downloadName(reqs[k].doc)]
    /\ UNCHANGED <<backend, phase, id, document, loading, error, retrying,
                   pollingInterval, timers, obs, pollFailed, resolvingId,
                   resolutionNotes, resolved, deleted, pushed, otherPages>>
    /\ UNCHANGED <<dueEffect, view>>

\* handleExportReport after getReport rejected with the statement of
\* loadDocument's catch added: the interval is cleared too.
handleExportReportRejectedClearing(k) ==
    /\ Rejects(k, "getReport")
    /\ reqs' = Remove(reqs, k)
    /\ timers' = Cleanup(pollingInterval, timers)
    /\ IF phase = "mounted"
       THEN error' = ReportFailure(Message(k)) /\ isExporting' = FALSE
       ELSE UNCHANGED <<error, isExporting>>
    /\ ev' = Event("failReport", "export", reqs[k].late, FALSE, "skipped")
    /\ UNCHANGED <<backend, phase, id, document, loading, retrying,
                   pollingInterval, obs, pollFailed, resolvingId,
                   resolutionNotes, resolved, deleted, pushed, otherPages>>
    /\ UNCHANGED <<dueEffect, view>>

\* handleExportReport after getReport rejected:
\* setError("Failed to generate audit report: " + err.message), finally
\* setIsExporting(false).
handleExportReportRejected(k) ==
    /\ Rejects(k, "getReport")
    /\ reqs' = Remove(reqs, k)
    /\ IF phase = "mounted"
       THEN error' = ReportFailure(Message(k)) /\ isExporting' = FALSE
       ELSE UNCHANGED <<error, isExporting>>
    /\ ev' = Event("failReport", "export", reqs[k].late, FALSE, "skipped")
    /\ UNCHANGED <<backend, phase, id, document, loading, retrying,
                   pollingInterval, timers, obs, pollFailed, resolvingId,
                   resolutionNotes, resolved, deleted, pushed, otherPages>>
    /\ UNCHANGED <<dueEffect, view>>

\* A handler that sends the request whatever the answer to the prompt.
handleDeleteUnprompted(confirmed) ==
    /\ Rendered
    /\ ~dueEffect.flush
    /\ Len(reqs) < MaxInFlight
    /\ reqs' = Append(reqs, Request("deleteDocument", id, "delete", FALSE))
    /\ ev' = Event("issueDelete", "delete", FALSE, FALSE, "skipped")
    /\ UNCHANGED <<backend, phase, id, document, loading, error, retrying,
                   pollingInterval, timers, obs, pollFailed, operatorVars,
                   otherPages>>
    /\ UNCHANGED <<dueEffect, view>>

\* Click on "Delete" (always enabled): confirm(...); when it is declined
\* the handler returns, else apiClient.deleteDocument(id).  The handler sets
\* no state before its await.
handleDelete(confirmed) ==
    /\ Rendered
    /\ ~dueEffect.flush
    /\ IF confirmed
       THEN /\ Len(reqs) < MaxInFlight
            /\ reqs' = Append(reqs, Request("deleteDocument", id, "delete", FALSE))
            /\ ev' = Event("issueDelete", "delete", FALSE, FALSE, "skipped")
       ELSE /\ reqs' = reqs
            /\ ev' = Event("declineDelete", "delete", FALSE, FALSE, "skipped")
    /\ UNCHANGED <<backend, phase, id, document, loading, error, retrying,
                   pollingInterval, timers, obs, pollFailed, operatorVars,
                   otherPages>>
    /\ UNCHANGED <<dueEffect, view>>

\* deleteDocument(id) is served: the document and its dependents are
\* removed; NotFound when it is gone already.
ServeDelete(k) ==
    /\ Pending(k, "deleteDocument")
    /\ IF reqs[k].id \in deleted
       THEN deleted' = deleted /\ Answer(k, "notfound", NoDoc)
       ELSE deleted' = deleted \cup {reqs[k].id} /\ Answer(k, "ok", NoDoc)
    /\ ev' = Quiet
    /\ UNCHANGED <<backend, phase, id, document, loading, error, retrying,
                   pollingInterval, timers, obs, pollFailed, resolvingId,
                   resolutionNotes, isExporting, resolved, pushed, otherPages>>
    /\ UNCHANGED <<dueEffect, view>>

\* handleDelete after deleteDocument resolved: router.push("/documents").
\* The navigation unmounts the view later.
handleDeleteResolved(k) ==
    /\ Resolves(k, "deleteDocument")
    /\ reqs' = Remove(reqs, k)
    /\ pushed' = TRUE
    /\ ev' = Event("deleted", "delete", reqs[k].late, FALSE, "skipped")
    /\ UNCHANGED <<backend, phase, id, document, loading, error, retrying,
                   pollingInterval, timers, obs, pollFailed, resolvingId,
                   resolutionNotes, isExporting, resolved, deleted, otherPages>>
    /\ UNCHANGED <<dueEffect, view>>

\* handleDelete after deleteDocument rejected: setError(err.message).
handleDeleteRejected(k) ==
    /\ Rejects(k, "deleteDocument")
    /\ reqs' = Remove(reqs, k)
    /\ error' = (IF phase = "mounted" THEN Message(k) ELSE error)
    /\ ev' = Event("failDelete", "delete", reqs[k].late, FALSE, "skipped")
    /\ UNCHANGED <<backend, phase, id, document, loading, retrying,
                   pollingInterval, timers, obs, pollFailed, operatorVars,
                   otherPages>>
    /\ UNCHANGED <<dueEffect, view>>

\* The detail view of one document with all that its operator can do,
\* between the ticks of its interval timer.
NextDetail ==
    \/ Mount
    \/ Unmount
    \/ idEffectCleanup
    \/ \E i \in Ids, s \in Statuses : Advance(i, s)
    \/ \E k \in Slots : ServeGet(k)
    \/ \E k \in Slots : ServeRetry(k)
    \/ \E k \in Slots : loadDocumentResolved(k)
    \/ Render
    \/ pollingEffect
    \/ \E k \in Slots : loadDocumentRejected(k)
    \/ handleRetry
    \/ \E k \in Slots : handleRetryResolved(k)
    \/ \E k \in Slots : handleRetryRejected(k)
    \/ openResolve
    \/ \E notes \in NotesTyped : typeNotes(notes)
    \/ cancelResolve
    \/ handleResolveAlert
    \/ \E k \in Slots : ServeResolve(k)
    \/ \E k \in Slots : handleResolveAlertResolved(k)
    \/ \E k \in Slots : handleResolveAlertRejected(k)
    \/ handleExportReport
    \/ \E k \in Slots : ServeReport(k)
    \/ \E k \in Slots : handleExportReportResolved(k)
    \/ \E k \in Slots : handleExportReportRejected(k)
    \/ \E c \in BOOLEAN : handleDelete(c)
    \/ \E k \in Slots : ServeDelete(k)
    \/ \E k \in Slots : handleDeleteResolved(k)
    \/ \E k \in Slots : handleDeleteRejected(k)

\* The views of one document: the other document is at rest.
InitOne == Init /\ backend[2] = "COMPLETED"

\* The detail view of one document with all that its operator can do,
\* between the ticks of its interval timer.
SpecOperator == InitOne /\ [][NextDetail]_vars

ResolveSteps ==
    \/ openResolve
    \/ \E notes \in NotesTyped : typeNotes(notes)
    \/ cancelResolve
    \/ handleResolveAlert
    \/ \E k \in Slots : ServeResolve(k)
    \/ \E k \in Slots : handleResolveAlertResolved(k)
    \/ \E k \in Slots : handleResolveAlertRejected(k)

ExportSteps ==
    \/ handleExportReport
    \/ \E k \in Slots : ServeReport(k)
    \/ \E k \in Slots : handleExportReportResolved(k)
    \/ \E k \in Slots : handleExportReportRejected(k)

DeleteSteps ==
    \/ \E c \in BOOLEAN : handleDelete(c)
    \/ \E k \in Slots : ServeDelete(k)
    \/ \E k \in Slots : handleDeleteResolved(k)
    \/ \E k \in Slots : handleDeleteRejected(k)

\* The detail view whose operator exports reports.
NextExport == NextOneId \/ ExportSteps
SpecExport == InitOne /\ [][NextExport]_vars

\* The detail view whose operator deletes the document.
NextDelete == NextOneId \/ DeleteSteps
SpecDelete == InitOne /\ [][NextDelete]_vars

\* ============================================================ upload page
\* handleDrop: the first file of the drop is stored as it is.  The drop zone
\* is rendered while no file is selected.
handleDrop(f) ==
    /\ file = NoFile
    /\ file' = f
    /\ uploadError' = ""
    /\ UNCHANGED <<uploading, success, uploads, redirect, created, detailVars,
                   alertsVars, listVars>>

\* handleFileSelect: the file chosen in the file dialog is stored as it is.
\* The accept attribute only presets the dialog's filter, which the user
\* can widen, and says nothing about size.
handleFileSelect(f) ==
    /\ file = NoFile
    /\ file' = f
    /\ uploadError' = ""
    /\ UNCHANGED <<uploading, success, uploads, redirect, created, detailVars,
                   alertsVars, listVars>>

\* The X button of the file card (disabled while uploading): setFile(null).
clearFile ==
    /\ file # NoFile
    /\ ~uploading
    /\ file' = NoFile
    /\ UNCHANGED <<uploading, success, uploadError, uploads, redirect,
                   created, detailVars, alertsVars, listVars>>

\* A "Confirm and Analyze" button that is never disabled.
handleUploadAnyTime ==
    /\ file # NoFile
    /\ Len(uploads) < MaxInFlight
    /\ uploading' = TRUE
    /\ uploadError' = ""
    /\ uploads' = Append(uploads, [file |-> file, resp |-> "pending", data |-> 0])
    /\ UNCHANGED <<file, success, redirect, created, detailVars, alertsVars,
                   listVars>>

\* Click on "Confirm and Analyze" (rendered with the file card, disabled
\* while uploading or after a success): handleUpload up to its await.
handleUpload ==
    /\ file # NoFile
    /\ ~uploading /\ ~success
    /\ uploading' = TRUE
    /\ uploadError' = ""
    /\ uploads' = Append(uploads, [file |-> file, resp |-> "pending", data |-> 0])
    /\ UNCHANGED <<file, success, redirect, created, detailVars, alertsVars,
                   listVars>>

\* uploadDocument is served: a document is created and returned under an id
\* no document has had, or the payload is refused as invalid.
ServeUpload(k) ==
    /\ k \in 1..Len(uploads)
    /\ uploads[k].resp = "pending"
    /\ IF ValidUpload(uploads[k].file)
       THEN /\ created < MaxCreated
            /\ created' = created + 1
            /\ uploads' = [uploads EXCEPT
                               ![k].resp = "ok",
                               ![k].data = Cardinality(Ids) + created + 1]
       ELSE /\ created' = created
            /\ uploads' = [uploads EXCEPT ![k].resp = "invalid"]
    /\ UNCHANGED <<file, uploading, success, uploadError, redirect,
                   detailVars, alertsVars, listVars>>

\* handleUpload after uploadDocument resolved: setSuccess(true), the
\* redirect to the returned document is scheduled (setTimeout), finally
\* setUploading(false).
handleUploadResolved(k) ==
    /\ k \in 1..Len(uploads)
    /\ uploads[k].resp = "ok"
    /\ uploads' = Remove(uploads, k)
    /\ success' = TRUE
    /\ uploading' = FALSE
    /\ redirect' = [state |-> "scheduled", to |-> uploads[k].data]
    /\ UNCHANGED <<file, uploadError, created, detailVars, alertsVars,
                   listVars>>

\* handleUpload after uploadDocument rejected (refused by the service, or
\* the transport failed): setError(err.message), finally
\* setUploading(false).
handleUploadRejected(k) ==
    /\ k \in 1..Len(uploads)
    /\ uploads' = Remove(uploads, k)
    /\ uploadError' = (IF uploads[k].resp = "invalid"
                       THEN "ValidationError" ELSE "TransportError")
    /\ uploading' = FALSE
    /\ UNCHANGED <<file, success, redirect, created, detailVars, alertsVars,
                   listVars>>

\* The timeout fires: router.push(`/documents/${document.id}`), document
\* being the one uploadDocument returned.
uploadRedirect ==
    /\ redirect.state = "scheduled"
    /\ redirect' = [redirect EXCEPT !.state = "pushed"]
    /\ UNCHANGED <<file, uploading, success, uploadError, uploads, created,
                   detailVars, alertsVars, listVars>>

NextUpload ==
    \/ \E f \in Files : handleDrop(f)
    \/ \E f \in Files : handleFileSelect(f)
    \/ clearFile
    \/ handleUpload
    \/ \E k \in Slots : ServeUpload(k)
    \/ \E k \in Slots : handleUploadResolved(k)
    \/ \E k \in Slots : handleUploadRejected(k)
    \/ uploadRedirect

SpecUpload == Init /\ [][NextUpload]_vars

\* ============================================================ alerts page
\* The second argument of resolveAlert in handleResolve, a string literal.
ManualNotes == <<"Manually reviewed and resolved.">>

\* The values of the priority filter the operator chooses among ("" is
\* "All Priorities"), and the risk level of each flag.
AlertFilters == {"", "CRITICAL", "HIGH", "MEDIUM", "LOW"}
Level(a) == IF a = 1 THEN "HIGH" ELSE "LOW"

\* The unresolved flags of the analysed documents, in the order of their
\* ids.
RECURSIVE Unresolved(_)
Unresolved(n) ==
    IF n = 0 THEN <<>>
    ELSE IF n \in Ids /\ backend[n] = "COMPLETED" /\ n \notin deleted
            /\ n \notin resolved
         THEN Append(Unresolved(n - 1), n)
         ELSE Unresolved(n - 1)

\* listAlerts({risk_level: filter || undefined, is_resolved: false})
Listed(f) ==
    SelectSeq(Unresolved(Cardinality(Ids)),
              LAMBDA a : f = "" \/ Level(a) = f)

\* alerts.filter(a => a.id !== id)
RECURSIVE Without(_, _)
Without(list, a) ==
    IF list = <<>> THEN <<>>
    ELSE IF Head(list) = a THEN Without(Tail(list), a)
         ELSE <<Head(list)>> \o Without(Tail(list), a)

\* The result of the k-th request is stored: the requests of the same
\* operation issued before it and still in flight are superseded (history).
Overtake(s, k) ==
    [n \in 1..Len(s) |->
        IF n < k /\ s[n].op = s[k].op
        THEN [s[n] EXCEPT !.superseded = TRUE] ELSE s[n]]

\* A request of the alerts page: filter and shown are the filter and the
\* alerts of the render whose closure sent it.
AlertRequest(op, a, notes, shown, f) ==
    [op |-> op, flag |-> a, notes |-> notes, shown |-> shown, filter |-> f,
     superseded |-> FALSE, resp |-> "pending", data |-> <<>>]

\* First commit of the alerts page: the [filter] effect calls loadAlerts:
\* setLoading(true), apiClient.listAlerts(...).
loadAlerts ==
    /\ alertsPhase = "created"
    /\ alertsPhase' = "mounted"
    /\ alertsLoading' = TRUE
    /\ alertReqs' = Append(alertReqs,
                           AlertRequest("listAlerts", NoFlag, <<>>, alerts,
                                        alertsFilter))
    /\ UNCHANGED <<alerts, alertsError, alertsFilter, alertsView, detailVars,
                   uploadVars, listVars>>

\* The select's onChange: setFilter(e.target.value), rendered in the task
\* of the event; the [filter] effect runs again after that commit and calls
\* loadAlerts with the new filter.  Its setLoading(true) is rendered in a
\* later task (alertsRender): the list of the last commit stays on the
\* screen.
alertsSetFilter(f) ==
    /\ alertsPhase = "mounted"
    /\ f # alertsFilter
    /\ Len(alertReqs) < MaxInFlight
    /\ alertsFilter' = f
    /\ alertsLoading' = TRUE
    /\ alertReqs' = Append(alertReqs,
                           AlertRequest("listAlerts", NoFlag, <<>>,
                                        alertsView.alerts, f))
    /\ UNCHANGED <<alertsPhase, alerts, alertsError, alertsView, detailVars,
                   uploadVars, listVars>>

\* React renders the state that the continuations and the [filter] effect
\* have set since the last commit, and commits it: the spinner while
\* loading, else the list.
alertsRender ==
    /\ alertsPhase = "mounted"
    /\ LET cells == [alerts |-> alerts, loading |-> alertsLoading,
                     error |-> alertsError]
       IN  /\ alertsView # cells
           /\ alertsView' = cells
    /\ UNCHANGED <<alertsPhase, alerts, alertsLoading, alertsError,
                   alertsFilter, alertReqs, detailVars, uploadVars, listVars>>

ServeListAlerts(k) ==
    /\ k \in 1..Len(alertReqs)
    /\ alertReqs[k].op = "listAlerts"
    /\ alertReqs[k].resp = "pending"
    /\ alertReqs' = [alertReqs EXCEPT ![k].resp = "ok",
                                      ![k].data = Listed(alertReqs[k].filter)]
    /\ UNCHANGED <<alertsPhase, alerts, alertsLoading, alertsError,
                   alertsFilter, alertsView, detailVars, uploadVars, listVars>>

\* loadAlerts after listAlerts resolved: setAlerts(data.alerts), finally
\* setLoading(false).
loadAlertsResolved(k) ==
    /\ k \in 1..Len(alertReqs)
    /\ alertReqs[k].op = "listAlerts"
    /\ alertReqs[k].resp = "ok"
    /\ alerts' = alertReqs[k].data
    /\ alertsLoading' = FALSE
    /\ alertReqs' = Remove(Overtake(alertReqs, k), k)
    /\ UNCHANGED <<alertsPhase, alertsError, alertsFilter, alertsView,
                   detailVars, uploadVars, listVars>>

\* loadAlerts after listAlerts rejected: setError(err.message), finally
\* setLoading(false).
loadAlertsRejected(k) ==
    /\ k \in 1..Len(alertReqs)
    /\ alertReqs[k].op = "listAlerts"
    /\ alertsError' = "TransportError"
    /\ alertsLoading' = FALSE
    /\ alertReqs' = Remove(alertReqs, k)
    /\ UNCHANGED <<alertsPhase, alerts, alertsFilter, alertsView, detailVars,
                   uploadVars, listVars>>

\* Click on "Dismiss" or "Resolve" of an alert of the list on the screen
\* (listed when not loading; never disabled): handleResolve(alert.id) up to
\* its await.  The handler sets no state before it.
handleResolve(a) ==
    /\ alertsPhase = "mounted"
    /\ ~alertsView.loading
    /\ \E n \in 1..Len(alertsView.alerts) : alertsView.alerts[n] = a
    /\ Len(alertReqs) < MaxInFlight
    /\ alertReqs' = Append(alertReqs,
                           AlertRequest("resolveAlert", a, ManualNotes,
                                        alertsView.alerts, alertsFilter))
    /\ UNCHANGED <<alertsPhase, alerts, alertsLoading, alertsError,
                   alertsFilter, alertsView, detailVars, uploadVars, listVars>>

\* resolveAlert of the alerts page is served.
ServeAlertResolve(k) ==
    /\ k \in 1..Len(alertReqs)
    /\ alertReqs[k].op = "resolveAlert"
    /\ alertReqs[k].resp = "pending"
    /\ LET r == alertReqs[k]
           kind == IF ~HasText(r.notes) THEN "invalid"
                   ELSE IF r.flag \in deleted THEN "notfound"
                   ELSE IF r.flag \in resolved THEN "conflict"
                   ELSE "ok"
       IN  /\ alertReqs' = [alertReqs EXCEPT ![k].resp = kind]
           /\ resolved' = IF kind = "ok" THEN resolved \cup {r.flag} ELSE resolved
    /\ UNCHANGED <<backend, phase, id, document, loading, error, retrying,
                   pollingInterval, timers, reqs, obs, ev, pollFailed,
                   resolvingId, resolutionNotes, isExporting, deleted, pushed,
                   alertsPhase, alerts, alertsLoading, alertsError,
                   alertsFilter, alertsView, uploadVars, listVars>>
    /\ UNCHANGED <<dueEffect, view>>

\* handleResolve after resolveAlert resolved:
\* setAlerts(alerts.filter(a => a.id !== id)), alerts being the list of the
\* render in which the button was clicked.
handleResolveResolved(k) ==
    /\ k \in 1..Len(alertReqs)
    /\ alertReqs[k].op = "resolveAlert"
    /\ alertReqs[k].resp = "ok"
    /\ alerts' = Without(alertReqs[k].shown, alertReqs[k].flag)
    /\ alertReqs' = Remove(alertReqs, k)
    /\ UNCHANGED <<alertsPhase, alertsLoading, alertsError, alertsFilter,
                   alertsView, detailVars, uploadVars, listVars>>

\* handleResolve after resolveAlert rejected: console.error(...) only.
handleResolveRejected(k) ==
    /\ k \in 1..Len(alertReqs)
    /\ alertReqs[k].op = "resolveAlert"
    /\ alertReqs' = Remove(alertReqs, k)
    /\ UNCHANGED <<alertsPhase, alerts, alertsLoading, alertsError,
                   alertsFilter, alertsView, detailVars, uploadVars, listVars>>

NextAlerts ==
    \/ loadAlerts
    \/ \E f \in AlertFilters : alertsSetFilter(f)
    \/ alertsRender
    \/ \E k \in Slots : ServeListAlerts(k)
    \/ \E k \in Slots : loadAlertsResolved(k)
    \/ \E k \in Slots : loadAlertsRejected(k)
    \/ \E a \in Ids : handleResolve(a)
    \/ \E k \in Slots : ServeAlertResolve(k)
    \/ \E k \in Slots : handleResolveResolved(k)
    \/ \E k \in Slots : handleResolveRejected(k)

SpecAlerts == Init /\ [][NextAlerts]_vars

\* ========================================================= documents list
\* The values of the status filter the operator chooses among ("" is "All
\* Statuses").
DocFilters == {"", "UPLOADED", "PROCESSING", "COMPLETED", "FAILED"}

\* The documents of one status, and those a filter selects, in the order
\* in which the service lists them.
Matching(f) ==
    LET Items(s) == [n \in 1..archive[s] |-> <<s, n>>]
    IN  IF f = ""
        THEN Items("UPLOADED") \o Items("PROCESSING") \o Items("COMPLETED")
             \o Items("FAILED")
        ELSE Items(f)

\* The p-th page of a listing; empty beyond the last page.
PageOf(all, p) ==
    LET lo == (p - 1) * PageSize + 1
        hi == IF p * PageSize < Len(all) THEN p * PageSize ELSE Len(all)
    IN  [n \in 1..(IF hi < lo THEN 0 ELSE hi - lo + 1) |-> all[lo + n - 1]]

\* Math.ceil(total / 20)
Ceil(t) == (t + PageSize - 1) \div PageSize

\* A request of a list page: filter and page are those of the render whose
\* closure sent it.
ListRequest(op, f, p) ==
    [op |-> op, filter |-> f, page |-> p, superseded |-> FALSE,
     resp |-> "pending", data |-> <<>>, total |-> 0]

\* The pagination controls are on the screen: `documents.length > 0 &&
\* total > 20` of the last commit, outside the `loading ?` branch.
DocsControls ==
    docsPhase = "mounted" /\ Len(docsView.documents) > 0
        /\ docsView.total > PageSize

\* First commit of the documents list (the spinner): the [filter, page]
\* effect calls loadDocuments: setLoading(true),
\* apiClient.listDocuments(...).
loadDocuments ==
    /\ docsPhase = "created"
    /\ docsPhase' = "mounted"
    /\ docsLoading' = TRUE
    /\ docsReqs' = Append(docsReqs,
                          ListRequest("listDocuments", docsFilter, docsPage))
    /\ UNCHANGED <<archive, removed, documents, docsError, docsFilter,
                   docsPage, docsTotal, docsView, logsVars, searchVars,
                   detailVars, uploadVars, alertsVars>>

\* The select's onChange: setFilter(e.target.value), rendered in the task
\* of the event; the [filter, page] effect runs again after that commit,
\* with the page as it is, and calls loadDocuments.  Its setLoading(true)
\* is rendered in a later task (docsRender), as are the updates that a
\* continuation has queued before the event.
docsSetFilter(f) ==
    /\ docsPhase = "mounted"
    /\ f # docsFilter
    /\ Len(docsReqs) < MaxInFlight
    /\ docsFilter' = f
    /\ docsLoading' = TRUE
    /\ docsReqs' = Append(docsReqs, ListRequest("listDocuments", f, docsPage))
    /\ UNCHANGED <<archive, removed, docsPhase, documents, docsError,
                   docsPage, docsTotal, docsView, logsVars, searchVars,
                   detailVars, uploadVars, alertsVars>>

\* The left button of the controls on the screen (disabled={page === 1}):
\* setPage(p => Math.max(1, p - 1)), rendered in the task of the click; the
\* effect runs again after that commit and calls loadDocuments, whose
\* setLoading(true) is rendered in a later task (docsRender).
docsPrevious ==
    /\ DocsControls
    /\ docsPage # 1
    /\ Len(docsReqs) < MaxInFlight
    /\ docsPage' = (IF docsPage - 1 > 1 THEN docsPage - 1 ELSE 1)
    /\ docsLoading' = TRUE
    /\ docsReqs' = Append(docsReqs,
                          ListRequest("listDocuments", docsFilter, docsPage'))
    /\ UNCHANGED <<archive, removed, docsPhase, documents, docsError,
                   docsFilter, docsTotal, docsView, logsVars, searchVars,
                   detailVars, uploadVars, alertsVars>>

\* The right button of the controls on the screen
\* (disabled={page >= Math.ceil(total / 20)}, with the total of the last
\* commit): setPage(p => p + 1), rendered in the task of the click; the
\* effect runs again after that commit and calls loadDocuments, whose
\* setLoading(true) is rendered in a later task (docsRender).
docsNext ==
    /\ DocsControls
    /\ ~(docsPage >= Ceil(docsView.total))
    /\ Len(docsReqs) < MaxInFlight
    /\ docsPage' = docsPage + 1
    /\ docsLoading' = TRUE
    /\ docsReqs' = Append(docsReqs,
                          ListRequest("listDocuments", docsFilter, docsPage'))
    /\ UNCHANGED <<archive, removed, docsPhase, documents, docsError,
                   docsFilter, docsTotal, docsView, logsVars, searchVars,
                   detailVars, uploadVars, alertsVars>>

\* React renders the state that the continuations and the [filter, page]
\* effect have set since the last commit, and commits it: the error block,
\* the spinner while loading, else the documents, and the controls.
docsRender ==
    /\ docsPhase = "mounted"
    /\ LET cells == [documents |-> documents, loading |-> docsLoading,
                     total |-> docsTotal, error |-> docsError]
       IN  /\ docsView # cells
           /\ docsView' = cells
    /\ UNCHANGED <<archive, removed, docsPhase, documents, docsLoading,
                   docsError, docsFilter, docsPage, docsTotal, docsReqs,
                   logsVars, searchVars, detailVars, uploadVars, alertsVars>>

\* listDocuments is served: the requested page of the documents the filter
\* selects, and their number.
ServeListDocuments(k) ==
    /\ k \in 1..Len(docsReqs)
    /\ docsReqs[k].resp = "pending"
    /\ LET all == Matching(docsReqs[k].filter)
       IN  docsReqs' = [docsReqs EXCEPT ![k].resp = "ok",
                                        ![k].data = PageOf(all, docsReqs[k].page),
                                        ![k].total = Len(all)]
    /\ UNCHANGED <<archive, removed, docsPhase, documents, docsLoading,
                   docsError, docsFilter, docsPage, docsTotal, docsView,
                   logsVars, searchVars, detailVars, uploadVars, alertsVars>>

\* loadDocuments after listDocuments resolved: setDocuments(data.documents),
\* setTotal(data.total), finally setLoading(false).
loadDocumentsResolved(k) ==
    /\ k \in 1..Len(docsReqs)
    /\ docsReqs[k].resp = "ok"
    /\ documents' = docsReqs[k].data
    /\ docsTotal' = docsReqs[k].total
    /\ docsLoading' = FALSE
    /\ docsReqs' = Remove(Overtake(docsReqs, k), k)
    /\ UNCHANGED <<archive, removed, docsPhase, docsError, docsFilter,
                   docsPage, docsView, logsVars, searchVars, detailVars,
                   uploadVars, alertsVars>>

\* loadDocuments after listDocuments rejected: setError(err.message),
\* finally setLoading(false).
loadDocumentsRejected(k) ==
    /\ k \in 1..Len(docsReqs)
    /\ docsError' = "TransportError"
    /\ docsLoading' = FALSE
    /\ docsReqs' = Remove(docsReqs, k)
    /\ UNCHANGED <<archive, removed, docsPhase, documents, docsFilter,
                   docsPage, docsTotal, docsView, logsVars, searchVars,
                   detailVars, uploadVars, alertsVars>>

\* A document of status s is deleted from the archive (by a detail view).
archiveRemove(s) ==
    /\ docsPhase = "mounted"
    /\ archive[s] > 0
    /\ removed < MaxRemoved
    /\ archive' = [archive EXCEPT ![s] = archive[s] - 1]
    /\ removed' = removed + 1
    /\ UNCHANGED <<docsPhase, documents, docsLoading, docsError, docsFilter,
                   docsPage, docsTotal, docsReqs, docsView, logsVars,
                   searchVars, detailVars, uploadVars, alertsVars>>

NextDocs ==
    \/ loadDocuments
    \/ \E f \in DocFilters : docsSetFilter(f)
    \/ docsPrevious
    \/ docsNext
    \/ docsRender
    \/ \E k \in Slots : ServeListDocuments(k)
    \/ \E k \in Slots : loadDocumentsResolved(k)
    \/ \E k \in Slots : loadDocumentsRejected(k)
    \/ \E s \in Statuses : archiveRemove(s)

\* ================================================================ audit log
\* The audit trail, latest entry first: the entries are numbered in the
\* order in which they were recorded.
Entries == [n \in 1..trail |-> trail + 1 - n]

\* The pagination controls are on the screen (inside the branch of
\* !loading, when total > 20).
LogsControls ==
    logsPhase = "mounted" /\ ~logsView.loading /\ logsView.total > PageSize

\* First commit of the audit log: the [page] effect calls loadLogs:
\* setLoading(true), apiClient.listAuditLogs({page, page_size: 20}).
loadLogs ==
    /\ logsPhase = "created"
    /\ logsPhase' = "mounted"
    /\ logsLoading' = TRUE
    /\ logsReqs' = Append(logsReqs, ListRequest("listAuditLogs", "", logsPage))
    /\ UNCHANGED <<trail, logs, logsTotal, logsPage, logsView, docsVars,
                   searchVars, detailVars, uploadVars, alertsVars>>

\* "Previous" (disabled={page === 1}): setPage(p => Math.max(1, p - 1)),
\* rendered in the task of the click; the [page] effect runs again after
\* that commit and calls loadLogs.  Its setLoading(true) is rendered in a
\* later task (logsRender): the controls stay on the screen.
logsPrevious ==
    /\ LogsControls
    /\ logsPage # 1
    /\ Len(logsReqs) < MaxInFlight
    /\ logsPage' = (IF logsPage - 1 > 1 THEN logsPage - 1 ELSE 1)
    /\ logsLoading' = TRUE
    /\ logsReqs' = Append(logsReqs, ListRequest("listAuditLogs", "", logsPage'))
    /\ UNCHANGED <<trail, logsPhase, logs, logsTotal, logsView, docsVars,
                   searchVars, detailVars, uploadVars, alertsVars>>

\* "Next" (disabled={page >= Math.ceil(total / 20)}): setPage(p => p + 1),
\* rendered in the task of the click; the [page] effect runs again after
\* that commit and calls loadLogs.  Its setLoading(true) is rendered in a
\* later task (logsRender): the controls stay on the screen.
logsNext ==
    /\ LogsControls
    /\ ~(logsPage >= Ceil(logsView.total))
    /\ Len(logsReqs) < MaxInFlight
    /\ logsPage' = logsPage + 1
    /\ logsLoading' = TRUE
    /\ logsReqs' = Append(logsReqs, ListRequest("listAuditLogs", "", logsPage'))
    /\ UNCHANGED <<trail, logsPhase, logs, logsTotal, logsView, docsVars,
                   searchVars, detailVars, uploadVars, alertsVars>>

\* React renders the state that the continuations and the [page] effect
\* have set since the last commit, and commits it: the spinner while
\* loading, else the entries and the controls.
logsRender ==
    /\ logsPhase = "mounted"
    /\ LET cells == [logs |-> logs, loading |-> logsLoading,
                     total |-> logsTotal]
       IN  /\ logsView # cells
           /\ logsView' = cells
    /\ UNCHANGED <<trail, logsPhase, logs, logsLoading, logsTotal, logsPage,
                   logsReqs, docsVars, searchVars, detailVars, uploadVars,
                   alertsVars>>

\* listAuditLogs is served: the requested page of the trail and its length.
ServeListAuditLogs(k) ==
    /\ k \in 1..Len(logsReqs)
    /\ logsReqs[k].resp = "pending"
    /\ logsReqs' = [logsReqs EXCEPT ![k].resp = "ok",
                                    ![k].data = PageOf(Entries, logsReqs[k].page),
                                    ![k].total = trail]
    /\ UNCHANGED <<trail, logsPhase, logs, logsLoading, logsTotal, logsPage,
                   logsView, docsVars, searchVars, detailVars, uploadVars,
                   alertsVars>>

\* loadLogs after listAuditLogs resolved: setLogs(data.logs),
\* setTotal(data.total), finally setLoading(false).
loadLogsResolved(k) ==
    /\ k \in 1..Len(logsReqs)
    /\ logsReqs[k].resp = "ok"
    /\ logs' = logsReqs[k].data
    /\ logsTotal' = logsReqs[k].total
    /\ logsLoading' = FALSE
    /\ logsReqs' = Remove(Overtake(logsReqs, k), k)
    /\ UNCHANGED <<trail, logsPhase, logsPage, logsView, docsVars,
                   searchVars, detailVars, uploadVars, alertsVars>>

\* loadLogs after listAuditLogs rejected: console.error(...), finally
\* setLoading(false).
loadLogsRejected(k) ==
    /\ k \in 1..Len(logsReqs)
    /\ logsLoading' = FALSE
    /\ logsReqs' = Remove(logsReqs, k)
    /\ UNCHANGED <<trail, logsPhase, logs, logsTotal, logsPage, logsView,
                   docsVars, searchVars, detailVars, uploadVars, alertsVars>>

\* The service records an operation in the audit trail (at most
\* MaxAppended of them during one visit).
trailAppend ==
    /\ logsPhase = "mounted"
    /\ trail < MaxTrail
    /\ \E t \in Trails : trail - t \in 0..(MaxAppended - 1)
    /\ trail' = trail + 1
    /\ UNCHANGED <<logsPhase, logs, logsLoading, logsTotal, logsPage, logsReqs,
                   logsView, docsVars, searchVars, detailVars, uploadVars,
                   alertsVars>>

NextLogs ==
    \/ loadLogs
    \/ logsPrevious
    \/ logsNext
    \/ logsRender
    \/ \E k \in Slots : ServeListAuditLogs(k)
    \/ \E k \in Slots : loadLogsResolved(k)
    \/ \E k \in Slots : loadLogsRejected(k)
    \/ trailAppend

\* ============================================================== search page
\* `query.trim()` is not empty.
HasQuery(q) == trim(q) # <<>>

\* What the service answers to a query: fragments of documents with their
\* similarity scores, by descending score; a document can have several
\* fragments and two fragments can have the same score.
Hits(q) ==
    IF Len(trim(q)) = 1
    THEN <<[doc |-> 2, score |-> 9], [doc |-> 1, score |-> 9],
           [doc |-> 2, score |-> 5]>>
    ELSE IF Len(trim(q)) = 2
         THEN <<[doc |-> 1, score |-> 7]>>
         ELSE <<>>

\* A list of fragments without the later fragments of a document already
\* in it.
RECURSIVE Unique(_)
Unique(list) ==
    IF list = <<>> THEN <<>>
    ELSE LET front == Unique(SubSeq(list, 1, Len(list) - 1))
             last == list[Len(list)]
         IN  IF \E n \in 1..Len(front) : front[n].doc = last.doc
             THEN front ELSE Append(front, last)

\* A search request; again is history: a search had been submitted before
\* this one.
SearchRequest(q, again) ==
    [op |-> "search", query |-> q, superseded |-> FALSE, resp |-> "pending",
     data |-> <<>>, again |-> again]

\* History of a step of the search page: what it did, and whether it is
\* about a submission that was not the first.
SearchEvent(op, again) == [op |-> op, again |-> again]

\* The input's onChange: setQuery(e.target.value).
setQuery(q) ==
    /\ searchPhase = "mounted"
    /\ q # query
    /\ query' = q
    /\ searchEv' = SearchEvent("typed", FALSE)
    /\ UNCHANGED <<searchPhase, results, searchLoading, searched, searchReqs,
                   docsVars, logsVars, detailVars, uploadVars, alertsVars>>

\* handleSearch up to its await, with no test of loading on the way to it.
handleSearchWhileLoading ==
    /\ searchPhase = "mounted"
    /\ Len(searchReqs) < MaxInFlight
    /\ IF HasQuery(query)
       THEN /\ searchLoading' = TRUE
            /\ searched' = TRUE
            /\ searchReqs' = Append(searchReqs, SearchRequest(query, searched))
            /\ searchEv' = SearchEvent("issued", searched)
       ELSE /\ searchEv' = SearchEvent("refused", searched)
            /\ UNCHANGED <<searchLoading, searched, searchReqs>>
    /\ UNCHANGED <<searchPhase, query, results, docsVars, logsVars,
                   detailVars, uploadVars, alertsVars>>

\* The form is submitted (its submit button is disabled while loading) and
\* handleSearch runs up to its await: `if (!query.trim()) return`,
\* setLoading(true), setSearched(true), apiClient.search({query}).
handleSearch ==
    /\ searchPhase = "mounted"
    /\ ~searchLoading
    /\ Len(searchReqs) < MaxInFlight
    /\ IF HasQuery(query)
       THEN /\ searchLoading' = TRUE
            /\ searched' = TRUE
            /\ searchReqs' = Append(searchReqs, SearchRequest(query, searched))
            /\ searchEv' = SearchEvent("issued", searched)
       ELSE /\ searchEv' = SearchEvent("refused", searched)
            /\ UNCHANGED <<searchLoading, searched, searchReqs>>
    /\ UNCHANGED <<searchPhase, query, results, docsVars, logsVars,
                   detailVars, uploadVars, alertsVars>>

\* search is served.
ServeSearch(k) ==
    /\ k \in 1..Len(searchReqs)
    /\ searchReqs[k].resp = "pending"
    /\ searchReqs' = [searchReqs EXCEPT ![k].resp = "ok",
                                        ![k].data = Hits(searchReqs[k].query)]
    /\ searchEv' = SearchEvent("served", searchReqs[k].again)
    /\ UNCHANGED <<searchPhase, query, results, searchLoading, searched,
                   docsVars, logsVars, detailVars, uploadVars, alertsVars>>

\* handleSearch after search resolved, storing one fragment per document.
handleSearchResolvedUnique(k) ==
    /\ k \in 1..Len(searchReqs)
    /\ searchReqs[k].resp = "ok"
    /\ results' = Unique(searchReqs[k].data)
    /\ searchLoading' = FALSE
    /\ searchReqs' = Remove(Overtake(searchReqs, k), k)
    /\ searchEv' = SearchEvent("applied", searchReqs[k].again)
    /\ UNCHANGED <<searchPhase, query, searched, docsVars, logsVars,
                   detailVars, uploadVars, alertsVars>>

\* handleSearch after search resolved: setResults(data.results), finally
\* setLoading(false).
handleSearchResolved(k) ==
    /\ k \in 1..Len(searchReqs)
    /\ searchReqs[k].resp = "ok"
    /\ results' = searchReqs[k].data
    /\ searchLoading' = FALSE
    /\ searchReqs' = Remove(Overtake(searchReqs, k), k)
    /\ searchEv' = SearchEvent("applied", searchReqs[k].again)
    /\ UNCHANGED <<searchPhase, query, searched, docsVars, logsVars,
                   detailVars, uploadVars, alertsVars>>

\* A catch that also empties the results: setResults([]).
handleSearchRejectedClearing(k) ==
    /\ k \in 1..Len(searchReqs)
    /\ results' = <<>>
    /\ searchLoading' = FALSE
    /\ searchReqs' = Remove(searchReqs, k)
    /\ searchEv' = SearchEvent("failed", searchReqs[k].again)
    /\ UNCHANGED <<searchPhase, query, searched, docsVars, logsVars,
                   detailVars, uploadVars, alertsVars>>

\* handleSearch after search rejected: console.error(...), finally
\* setLoading(false).
handleSearchRejected(k) ==
    /\ k \in 1..Len(searchReqs)
    /\ searchLoading' = FALSE
    /\ searchReqs' = Remove(searchReqs, k)
    /\ searchEv' = SearchEvent("failed", searchReqs[k].again)
    /\ UNCHANGED <<searchPhase, query, results, searched, docsVars, logsVars,
                   detailVars, uploadVars, alertsVars>>

NextSearch ==
    \/ \E q \in Queries : setQuery(q)
    \/ handleSearch
    \/ \E k \in Slots : ServeSearch(k)
    \/ \E k \in Slots : handleSearchResolved(k)
    \/ \E k \in Slots : handleSearchRejected(k)

\* One visit of the search page.
InitSearch ==
    /\ InitPages("absent", "absent", "absent", "absent", "mounted")
    /\ archive = [s \in Statuses |-> 0]
    /\ trail = PageSize
    /\ backend = [i \in Ids |-> "COMPLETED"]

SpecSearch == InitSearch /\ [][NextSearch]_vars

\* One visit of a page that lists or searches: the documents list, the
\* audit log, the alerts page or the search page.
InitBrowse ==
    \/ /\ InitPages("absent", "absent", "created", "absent", "absent")
       /\ archive \in Archives
       /\ trail = PageSize
       /\ backend = [i \in Ids |-> "COMPLETED"]
    \/ /\ InitPages("absent", "absent", "absent", "created", "absent")
       /\ archive = [s \in Statuses |-> 0]
       /\ trail \in Trails
       /\ backend = [i \in Ids |-> "COMPLETED"]
    \/ /\ InitPages("absent", "created", "absent", "absent", "absent")
       /\ archive = [s \in Statuses |-> 0]
       /\ trail = PageSize
    \/ InitSearch

NextBrowse == NextDocs \/ NextLogs \/ NextAlerts \/ NextSearch

SpecBrowse == InitBrowse /\ [][NextBrowse]_vars

\* One visit of a page on which risk flags are resolved: the detail view
\* of a document, or the alerts page.  The document is being analysed when
\* the visit starts.
InitResolve ==
    /\ InitWith("created", "absent") \/ InitWith("absent", "created")
    /\ backend[1] = "PROCESSING"
    /\ backend[2] = "COMPLETED"

NextResolve == NextOneId \/ ResolveSteps \/ NextAlerts

SpecResolve == InitResolve /\ [][NextResolve]_vars

\* ============================================================== claims
InFlight == 1..Len(reqs)

\* C1: right after a getDocument result has been rendered and the polling
\* effect has run if it was due, a poll timer is live exactly when the
\* rendered status is UPLOADED or PROCESSING.
C1_ArmedIffNonTerminal ==
    ev.op = "applyDoc"
        => (timers # {} <=> view.document.status \in NonTerminal)

\* C2: at no time are two interval timers live for one document id.
C2_AtMostOneTimer ==
    \A i \in Ids : Cardinality({t \in timers : t.id = i}) <= 1

\* C2 witness: the polling effect ran for a non-terminal status while the
\* reference held a live timer, and one timer is live.
C2_Witness ==
    /\ ev.op = "applyDoc" /\ ev.effect = "kept"
    /\ Cardinality(timers) = 1
    /\ \E t \in timers : t.h = pollingInterval /\ t.id = id

\* C3: at no time are two poll fetches of one observed document in flight.
C3_OnePollInFlight ==
    \A i \in Ids :
        Cardinality({k \in InFlight :
                        reqs[k].op = "getDocument" /\ reqs[k].origin = "poll"
                        /\ reqs[k].id = i /\ ~reqs[k].late}) <= 1

\* C4: no getDocument is issued by a closure whose observation has ended
\* (the view unmounted, or its id changed) once the teardown, the cleanup of
\* the [id] effect, has run.
C4_NoFetchAfterTeardown ==
    ~(ev.op = "issue" /\ ev.late /\ dueEffect.idEffect = "none")

\* C5: the arrival, after the teardown has run, of a getDocument response
\* whose observation has ended changes neither the snapshot, nor the error
\* state, nor the loading flag.
C5_LateResultDiscarded ==
    [][(/\ ev'.op \in {"storeDoc", "failDoc"} /\ ev'.late
        /\ dueEffect.idEffect = "none")
         => UNCHANGED <<document, error, loading>>]_vars

\* C6: the result of a fetch is never stored over the result of a fetch of
\* the same document that was issued later; checked where it shows, that is
\* where the stored status replaces a different one.
C6_LastIssuedWins ==
    ~(ev.op = "applyDoc" /\ ev.stale /\ ev.effect # "skipped")

\* C7: once a poll fetch of this observation has failed, the error is set,
\* no timer is live and no getDocument is issued.
C7_PollErrorDisarms ==
    (pollFailed /\ phase = "mounted")
    => (error # "" /\ timers = {} /\ ev.op # "issue")

\* C8: when the result of the refresh that follows a successful retry has
\* been rendered and its status is PROCESSING, a poll timer is live.
C8_RetryRearms ==
    (ev.op = "applyDoc" /\ ev.origin = "retry" /\ ~ev.late
        /\ view.document.status = "PROCESSING")
    => timers # {}

\* C9: when the view has stored a status UPLOADED or PROCESSING, every fetch
\* succeeds, ticks are fair and the service settles on a terminal status,
\* then from some point on no timer is live and the view shows the
\* service's terminal snapshot, arrays included.
C9_ConvergesToTerminal ==
    (<>(document.status \in NonTerminal) /\ <>[](backend[id] \in Terminal))
    => <>[](timers = {} /\ document = Snapshot(id))

\* C10: a new observation issues one getDocument with loading set, no timer
\* is live before its result is stored, and once it has been rendered a
\* timer is live exactly when the rendered status is UPLOADED or PROCESSING.
C10_FirstObservation ==
    LET FirstFetches ==
            {k \in InFlight : reqs[k].op = "getDocument"
                              /\ reqs[k].origin = "mount" /\ ~reqs[k].late}
    IN  /\ (ev.op = "issue" /\ ev.origin = "mount")
               => (loading /\ Cardinality(FirstFetches) = 1)
        /\ (phase = "mounted" /\ FirstFetches # {}) => timers = {}
        /\ (ev.op = "applyDoc" /\ ev.origin = "mount" /\ ~ev.late)
               => (timers # {} <=> view.document.status \in NonTerminal)

\* C20: no uploadDocument request is issued for a file over the size
\* ceiling or of a type that is not accepted.
C20_InvalidUploadNotSent ==
    \A k \in 1..Len(uploads) : ValidUpload(uploads[k].file)

\* The requests of one kind among those in flight.
Of(op) == {k \in InFlight : reqs[k].op = op}

\* C11: no resolveAlert request carries notes that are empty after
\* trimming, from the detail view or from the alerts page, and an attempt
\* that is refused changes neither the selected flag, nor the notes, nor the
\* snapshot, nor the error, nor the page on the screen, nor the requests in
\* flight.
C11_BlankNotesNotSent ==
    /\ [](/\ \A k \in Of("resolveAlert") : trim(reqs[k].notes) # <<>>
          /\ \A k \in 1..Len(alertReqs) :
                 alertReqs[k].op = "resolveAlert"
                     => trim(alertReqs[k].notes) # <<>>)
    /\ [][ev'.op = "refuseResolve"
            => UNCHANGED <<resolvingId, resolutionNotes, document, reqs,
                           error, view>>]_vars

\* C11 witness: a resolve has succeeded and its continuation has reset the
\* flag; in the modal still on the screen the operator has typed blanks and
\* pressed "Confirm Override", which was refused: nothing is sent.
C11_Witness ==
    /\ ev.op = "refuseResolve"
    /\ resolvingId = NoFlag
    /\ view.resolvingId # NoFlag
    /\ resolutionNotes # <<>>
    /\ trim(resolutionNotes) = <<>>
    /\ view.resolutionNotes = resolutionNotes
    /\ Of("resolveAlert") = {}

\* C12: at no time are two resolveAlert requests in flight for one risk
\* flag.
C12_ResolvedAtMostOnce ==
    \A f \in Ids :
        Cardinality({k \in Of("resolveAlert") : reqs[k].flag = f})
        + Cardinality({k \in 1..Len(alertReqs) :
                          alertReqs[k].op = "resolveAlert"
                          /\ alertReqs[k].flag = f}) <= 1

\* C13: a failed resolveAlert leaves the selected flag and the typed notes
\* as they are, in the state and on the screen; the selection is dropped,
\* and notes that were typed are emptied by something other than typing,
\* only by a successful resolve or by Cancel; the modal leaves the screen
\* only by Cancel or by the render that follows a successful resolve.
C13_InputKeptOnFailure ==
    [][/\ ev'.op = "failResolve"
              => UNCHANGED <<resolvingId, resolutionNotes, view>>
       /\ (resolvingId # NoFlag /\ resolvingId' = NoFlag)
              => (ev'.op = "cancel" \/ (ev'.op = "issue" /\ ev'.origin = "resolve"))
       /\ (resolutionNotes # <<>> /\ resolutionNotes' = <<>> /\ ev'.op # "type")
              => (ev'.op = "cancel" \/ (ev'.op = "issue" /\ ev'.origin = "resolve"))
       /\ (view.resolvingId # NoFlag /\ view'.resolvingId = NoFlag)
              => (ev'.op = "cancel" \/ (Render /\ resolvingId = NoFlag))
      ]_vars

\* C13 witness: a resolveAlert of the mounted view has failed, the error is
\* set, and the flag and the notes are still there, in the state and in the
\* modal on the screen.
C13_Witness ==
    /\ ev.op = "failResolve" /\ ~ev.late
    /\ error # ""
    /\ resolvingId # NoFlag
    /\ HasText(resolutionNotes)
    /\ view.resolvingId = resolvingId
    /\ view.resolutionNotes = resolutionNotes

Gets(s) == Cardinality({n \in 1..Len(s) : s[n].op = "getDocument"})

\* The step appends one pending getDocument for document i and issues no
\* other.
OneRefresh(i, origin) ==
    /\ Gets(reqs') = Gets(reqs) + 1
    /\ reqs' # <<>>
    /\ LET r == reqs'[Len(reqs')]
       IN  r.op = "getDocument" /\ r.id = i /\ r.origin = origin
           /\ r.resp = "pending"

\* C14: the continuation of a retryDocument or of a resolveAlert that
\* resolved issues exactly one getDocument for the document, in its own
\* step (so before any later tick), and the catch of one that was rejected
\* issues none.
C14_RefreshAfterMutation ==
    [][\A k \in Slots :
          /\ handleRetryResolved(k) => OneRefresh(reqs[k].id, "retry")
          /\ handleResolveAlertResolved(k) => OneRefresh(reqs[k].id, "resolve")
          /\ (handleRetryRejected(k) \/ handleResolveAlertRejected(k))
                 => Gets(reqs') = Gets(reqs)
      ]_vars

\* C14 witness: a resolveAlert has resolved and its refresh is in flight,
\* while the modal of the last commit is still on the screen.
C14_Witness ==
    /\ ev.op = "issue" /\ ev.origin = "resolve"
    /\ \E k \in Of("getDocument") : reqs[k].origin = "resolve"
    /\ resolved # {}
    /\ resolvingId = NoFlag /\ view.resolvingId # NoFlag

\* C15: once deleteDocument has resolved in the view, no getDocument is
\* issued for the deleted document.
C15_NoFetchAfterDelete ==
    ~(ev.op = "issue" /\ pushed /\ reqs # <<>>
        /\ reqs[Len(reqs)].op = "getDocument"
        /\ reqs[Len(reqs)].id \in deleted)

\* C16: a deleteDocument rejected with NotFound shows no error.
C16_NotFoundDeleteIsSuccess ==
    ~(ev.op = "failDelete" /\ ~ev.late /\ error = "NotFoundError")

\* C17: a retryDocument request is issued only from the page on the screen
\* whose snapshot has status FAILED.
C17_RetryOnlyWhenFailed ==
    [][Cardinality(Of("retryDocument"))' > Cardinality(Of("retryDocument"))
          => (Rendered /\ view.document.status = "FAILED")]_vars

\* C17 witness: a retryDocument is in flight, issued from a page that
\* shows FAILED.
C17_Witness ==
    /\ Of("retryDocument") # {}
    /\ view.retrying
    /\ view.document.status = "FAILED"

\* C18: at no time are two retryDocument or deleteDocument requests of one
\* document in flight.
C18_OneMutationAtATime ==
    \A i \in Ids :
        Cardinality({k \in InFlight :
                        reqs[k].op \in {"retryDocument", "deleteDocument"}
                        /\ reqs[k].id = i}) <= 1

MutationsInFlight ==
    Cardinality({k \in InFlight :
                    reqs[k].op \in {"retryDocument", "deleteDocument",
                                    "resolveAlert"}})

\* C19: a step that issues or settles a getReport changes neither the
\* snapshot (in the state or on the screen), nor the poller, nor the
\* service's entities, nor the mutating requests in flight; when it records
\* an error it resets the exporting flag and changes nothing else of the
\* view.
C19_ExportMutatesNothing ==
    [][Cardinality(Of("getReport"))' # Cardinality(Of("getReport"))
          => /\ UNCHANGED <<document, pollingInterval, timers, backend,
                            resolved, deleted>>
             /\ view'.document = view.document
             /\ MutationsInFlight' = MutationsInFlight
             /\ Gets(reqs') = Gets(reqs)
             /\ error' # error
                  => (~isExporting'
                      /\ UNCHANGED <<loading, retrying, resolvingId,
                                     resolutionNotes, pushed>>)
      ]_vars

\* C19 witness: an export has failed in the mounted view while the poller
\* was armed: the error is recorded, the flag is reset, the timer lives.
C19_Witness ==
    /\ ev.op = "failReport" /\ ~ev.late
    /\ error = "Failed to generate audit report: TransportError"
    /\ ~isExporting
    /\ timers # {}
    /\ document.status \in NonTerminal

\* C21: on the documents list, the alerts page and the audit log, the
\* response of a list fetch is never applied after the response of a list
\* fetch issued later has been applied.
C21_LatestListFetchWins ==
    [][\A k \in Slots :
          /\ loadDocumentsResolved(k) => ~docsReqs[k].superseded
          /\ loadAlertsResolved(k) => ~alertReqs[k].superseded
          /\ loadLogsResolved(k) => ~logsReqs[k].superseded
      ]_vars

\* C22: after every list response applied by the documents list or by the
\* audit log, 1 <= page <= max(1, ceil(total / 20)).
C22_PageWithinBounds ==
    [][LET LastPage(t) == IF Ceil(t) > 1 THEN Ceil(t) ELSE 1
       IN  \A k \in Slots :
              /\ loadDocumentsResolved(k)
                    => (1 <= docsPage' /\ docsPage' <= LastPage(docsTotal'))
              /\ loadLogsResolved(k)
                    => (1 <= logsPage' /\ logsPage' <= LastPage(logsTotal'))
      ]_vars

\* C23: on the alerts page the step that initiates the resolve of a listed
\* alert removes it from the list, before any response.
C23_OptimisticRemoval ==
    [][\A a \in Ids : handleResolve(a) => alerts' = Without(alerts, a)]_vars

\* C24: on the alerts page, when a resolve the service refused is delivered,
\* the list is the one shown before the action and the page's error is set.
C24_RollbackAndError ==
    [][\A k \in Slots :
          (/\ handleResolveRejected(k)
           /\ alertReqs[k].resp \in {"conflict", "notfound", "invalid"})
              => (alerts' = alertReqs[k].shown /\ alertsError' # "")
      ]_vars

\* C25: on the alerts page, the step that applies a successful resolve of
\* alert X removes X from the list shown and changes nothing else in it.
C25_RemovesExactlyOne ==
    [][\A k \in Slots :
          handleResolveResolved(k)
              => alerts' = Without(alerts, alertReqs[k].flag)
      ]_vars

\* C26: no search request carries a query that is empty after trimming,
\* and a submission that is refused changes neither the results, nor the
\* loading flag, nor the searched flag, nor the requests in flight.
C26_BlankQueryNotSent ==
    /\ [](\A k \in 1..Len(searchReqs) : trim(searchReqs[k].query) # <<>>)
    /\ [][searchEv'.op = "refused"
            => UNCHANGED <<results, searchLoading, searched, searchReqs>>]_vars

\* C26 witness: a query made of blanks only was submitted and refused.
C26_Witness ==
    /\ searchEv.op = "refused"
    /\ query # <<>>
    /\ trim(query) = <<>>
    /\ searchReqs = <<>>
    /\ ~searchLoading

\* C27: the response that is applied is that of the latest submission: no
\* submission issued after it is in flight and none issued after it has
\* been applied.
C27_LatestSearchWins ==
    [][\A k \in Slots :
          handleSearchResolved(k)
              => (k = Len(searchReqs) /\ ~searchReqs[k].superseded)
      ]_vars

\* C27 witness: the response of a submission that followed another one has
\* been applied, nothing is in flight and the results are its results.
C27_Witness ==
    /\ searchEv.op = "applied"
    /\ searchEv.again
    /\ searchReqs = <<>>
    /\ results = Hits(query)
    /\ results # <<>>

\* C28: the step that applies a search response stores the returned
\* sequence as it is.
C28_ResultsAsReturned ==
    [][\A k \in Slots :
          handleSearchResolved(k) => results' = searchReqs[k].data]_vars

\* C28 witness: a response with two fragments of one document and two
\* fragments of equal score is displayed in the order of the response.
C28_Witness ==
    /\ searchEv.op = "applied"
    /\ Len(results) = 3
    /\ results[1].doc = results[3].doc
    /\ results[1].score = results[2].score
    /\ results = Hits(query)

\* What the search page and the audit log show of an error: they have no
\* error state and render no error element.
SearchErrorShown == FALSE
LogsErrorShown == FALSE

\* C29: the step that delivers a failure to a page leaves the page with a
\* user-visible error: of a resolve or a list fetch on the alerts page, of
\* a list fetch on the documents list, of a search, of a load of the audit
\* log.
C29_FailuresSurfaced ==
    [][\A k \in Slots :
          /\ handleResolveRejected(k) => alertsError' # ""
          /\ loadAlertsRejected(k) => alertsError' # ""
          /\ loadDocumentsRejected(k) => docsError' # ""
          /\ handleSearchRejected(k) => SearchErrorShown
          /\ loadLogsRejected(k) => LogsErrorShown
      ]_vars

\* C30: once a poll fetch of the mounted view has failed, no timer issues a
\* getDocument.
C30_NoAutomaticReissue ==
    ~(ev.op = "issue" /\ ev.origin = "poll" /\ ~ev.late
        /\ pollFailed /\ phase = "mounted")

\* C31: each successful export produces one artifact, named after the
\* document's original filename with only its final extension removed
\* (everything before the last dot); a failed export produces none.
C31_ArtifactName ==
    [][\A k \in Slots :
          /\ handleExportReportResolved(k)
                => ev'.download
                       = WithoutExtension(reqs[k].doc.original_filename)
          /\ handleExportReportRejected(k)
                => "download" \notin DOMAIN ev'
      ]_vars

\* C32: after the observed id has changed, a stored snapshot of the new
\* document that is UPLOADED or PROCESSING has a live timer once the
\* polling effect of its commit has run: a handle
\* cancelled at teardown does not prevent the arming.
C32_ArmedAfterIdChange ==
    (/\ phase = "mounted" /\ obs > 0 /\ error = "" /\ dueEffect = NoEffect
     /\ document.id = id /\ document.status \in NonTerminal)
        => \E t \in timers : t.h = pollingInterval /\ ~t.late

\* C33: on the alerts page the handling of a successful resolve never
\* brings back an alert whose own resolve has succeeded: when the resolves
\* of two alerts were both in flight, neither is displayed after both
\* responses have been handled.
C33_RemovalNotUndone ==
    [][\A k \in Slots :
          handleResolveResolved(k)
              => \A a \in resolved :
                    (\E n \in 1..Len(alerts') : alerts'[n] = a)
                        => (\E n \in 1..Len(alerts) : alerts[n] = a)
      ]_vars

\* C34: in the documents list, the alerts list and the audit log the
\* loading flag is true whenever a list fetch of the view is in flight.
C34_LoadingWhileFetching ==
    /\ (docsPhase = "mounted" /\ docsReqs # <<>>) => docsLoading
    /\ (alertsPhase = "mounted"
          /\ \E k \in 1..Len(alertReqs) : alertReqs[k].op = "listAlerts")
            => alertsLoading
    /\ (logsPhase = "mounted" /\ logsReqs # <<>>) => logsLoading

\* C35: in the documents list and the alerts list, once the result of a
\* successful list fetch is applied the error message of the view is
\* empty.
C35_ErrorClearedOnSuccess ==
    [][\A k \in Slots :
          /\ loadDocumentsResolved(k) => docsError' = ""
          /\ loadAlertsResolved(k) => alertsError' = ""
      ]_vars

C37_FailedSearchKeepsResults ==
    [][\A k \in Slots :
          handleSearchRejected(k)
              => /\ results' = results
                 /\ searched' /\ ~searchLoading'
                 /\ UNCHANGED <<query, searchPhase>>
      ]_vars

\* C37 witness: a search has just failed while the results of an earlier
\* successful query are displayed.
C37_Witness ==
    /\ searchEv.op = "failed"
    /\ results # <<>>
    /\ searched /\ ~searchLoading

\* C38: on the upload page a request is issued only with a file selected,
\* no upload in flight and no upload succeeded; at most one upload is in
\* flight and at most one succeeds per visit; the success schedules the
\* navigation to the detail view of the document id that the upload
\* returned, an id the service created for an upload of this visit, and the
\* navigation goes there; a failed upload keeps the file and does not
\* navigate.
C38_UploadAtMostOnce ==
    /\ [](Len(uploads) <= 1)
    /\ [](redirect.state # "none"
            => /\ success
               /\ redirect.to \in (Cardinality(Ids) + 1)..(Cardinality(Ids) + created))
    /\ [][Len(uploads') > Len(uploads)
            => (file # NoFile /\ ~uploading /\ ~success /\ uploads = <<>>)
         ]_vars
    /\ [][\A k \in Slots :
            /\ handleUploadResolved(k)
                  => (~success /\ success'
                      /\ redirect.state = "none"
                      /\ redirect' = [state |-> "scheduled",
                                      to |-> uploads[k].data])
            /\ handleUploadRejected(k)
                  => (file # NoFile /\ file' = file
                      /\ success' = success /\ redirect' = redirect)
         ]_vars
    /\ [][uploadRedirect
            => (redirect'.state = "pushed" /\ redirect'.to = redirect.to)
         ]_vars

\* C38 witness: a first upload created a document but its response was
\* lost; the second upload has succeeded and the page has navigated to the
\* document that one returned, the file still selected.
C38_Witness ==
    /\ success /\ redirect.state = "pushed"
    /\ created = 2
    /\ redirect.to = Cardinality(Ids) + 2
    /\ uploadError = ""
    /\ file # NoFile /\ ~uploading /\ uploads = <<>>

\* C39: a deleteDocument request is issued only by the handler whose prompt
\* was confirmed; when the prompt is declined no request is issued, nothing
\* navigates and the snapshot, the error, the poller and the page on the
\* screen stay as they are.
C39_DeleteOnlyWhenConfirmed ==
    [][/\ handleDelete(FALSE)
            => UNCHANGED <<reqs, pushed, document, error, pollingInterval,
                           timers, deleted, view>>
       /\ Cardinality(Of("deleteDocument"))' > Cardinality(Of("deleteDocument"))
            => handleDelete(TRUE)
      ]_vars

\* C39 witness: the prompt has just been declined while the poller is armed
\* and nothing is in flight.
C39_Witness ==
    /\ ev.op = "declineDelete"
    /\ phase = "mounted" /\ ~pushed /\ error = ""
    /\ document.status \in NonTerminal
    /\ timers # {}
    /\ Of("deleteDocument") = {}

====
